---- MODULE Spec2Model ----
(***************************************************************************)
(* Camera trajectory playback of the Gaussian splat viewer.                *)
(*                                                                         *)
(* GaussianViewer (viewer/GaussianViewer.ts) owns a TrajectoryPlayer, the  *)
(* trajectory parameters, the list of splat meshes and the orbit controls. *)
(* The render loop (animate) drives TrajectoryPlayer.update once per       *)
(* animation frame.  parsePlyMetadata (utils/plyMetadata.ts) decodes the   *)
(* header of a PLY file.                                                   *)
(*                                                                         *)
(* trajectory/TrajectoryPlayer.ts, trajectory/trajectories.ts and          *)
(* trajectory/types.ts are not part of the available sources; the player,  *)
(* the generator and the default parameters are modelled from section 4.4  *)
(* and 4.5 of the specification.                                           *)
(*                                                                         *)
(* Time is counted in ticks; one frame interval (1000 / fps ms) is         *)
(* FrameInterval ticks.  Instead of the two absolute timestamps            *)
(* performance.now() and the player's last-stepped timestamp the model     *)
(* keeps their difference, elapsed, saturated at MaxElapsed.               *)
(***************************************************************************)
EXTENDS Integers, Sequences, FiniteSets, TLC

\* ------------------------------------------------------------- constants
\* frame interval of the player, new TrajectoryPlayer(30): 1000 / 30 ms,
\* counted in ticks of 1/60 s
FrameInterval == 2

\* ---------------------------------------------------------------- bounds
\* saturation of the elapsed-time counter, and the longest animation frame
MaxElapsed == 4
\* largest numSteps value tried
MaxSteps == 4
\* files per load
MaxFiles == 1
\* points per position array handed to the depth estimator
MaxPoints == 2

Min(a, b) == IF a < b THEN a ELSE b

VARIABLES
    \* TrajectoryPlayer
    trajectory,      \* active CameraPositionSequence
    playerState,     \* "stopped" | "playing" | "paused"
    frameIndex,      \* current frame index
    elapsed,         \* performance.now() - last-stepped timestamp, in ticks
    loop,            \* looping configuration, fixed at construction
    \* GaussianViewer
    splatMeshes,     \* sequence of meshes, each the id of the load that added it
    trajectoryParams,
    controlsEnabled, \* controls.enabled
    isDisposed,
    loadPc,          \* position of the loadPlySequence call
    loadI,           \* its loop variable i
    loadN,           \* files.length
    \* observation
    lastOp,          \* player operation the last handler called, "none" if it called none
    emitted,         \* notifications the last handler emitted, in order
    eyePosition,     \* what update returned in the last handler: <<>> or <<position>>
    scenario,        \* progress of the player operation sequence play, pause, play, stop
    \* metadata codec
    plyFile,         \* how the file handed to the codec was written
    plyResult,       \* <<>> or <<the record parsePlyMetadata returned for that file>>
    plyReads,        \* byte indices that call read through its DataView
    defaultIntrinsics, \* contents of DEFAULT_METADATA.intrinsics
    defaultExtrinsics, \* contents of DEFAULT_METADATA.extrinsics
    \* depth estimator
    argPositions,    \* the positions argument of a computeDepthQuantiles call
    argQuantile,     \* its quantile argument
    depthQuantiles,  \* <<>> or <<the record the call returned>>
    \* camera set-up of the viewer
    viewerMetadata,  \* this.metadata: <<>> (null) or <<image size and focal length>>
    viewerPositions, \* this.positions
    boundingBox,     \* z extent of splatMeshes[0].getBoundingBox(true)
    minDepth,
    depthFocus,
    focalLength,
    maxDisparity,    \* trajectoryParams.maxDisparity
    maxZoom,         \* trajectoryParams.maxZoom
    maxOffset,       \* <<the offset the last handler computed>>, <<>> if it computed none
    \* overlapping calls of loadPlySequence
    calls,           \* per call: its position, loop variable, files and what it found
    \* parameter controls of the page
    controls,        \* value shown by the trajectory select and the five inputs
    \* the page around the viewer
    buttons,         \* disabled flag of the play and pause buttons and the control groups
    loadingVisible,  \* the loading overlay carries the class "visible"
    attempt,         \* the load attempt of the page in progress: its kind and position
    wsPending,       \* progress messages the server has sent and the socket not yet delivered
    \* frame animation of the viewer
    currentFrame     \* index of the mesh the animation shows

playerVars == <<trajectory, playerState, frameIndex, elapsed, loop>>
viewerVars == <<splatMeshes, trajectoryParams, controlsEnabled, isDisposed>>
loadVars == <<loadPc, loadI, loadN>>
obsVars == <<lastOp, emitted, eyePosition, scenario>>
plyVars == <<plyFile, plyResult, plyReads, defaultIntrinsics, defaultExtrinsics>>
quantVars == <<argPositions, argQuantile, depthQuantiles>>
camVars == <<viewerMetadata, viewerPositions, boundingBox, minDepth, depthFocus,
             focalLength, maxDisparity, maxZoom, maxOffset>>
callVars == <<calls>>
uiVars == <<controls>>
pageVars == <<buttons, loadingVisible, attempt, wsPending>>
frameVars == <<currentFrame>>
vars == <<playerVars, viewerVars, loadVars, obsVars, plyVars, quantVars, camVars,
          callVars, uiVars, pageVars, frameVars>>

\* ------------------------------------------------------------ input sets
TrajectoryTypes == {"swipe", "rotate"}
StepValues == {-1, MaxSteps}
RepeatValues == {0, 1}
DtValues == 1..MaxElapsed

\* trajectory/types.ts: the fixed default configuration
DEFAULT_TRAJECTORY_PARAMS == [type |-> "rotate", numSteps |-> 2, numRepeats |-> 1]

\* ------------------------------------------------- Trajectory Generator
\* createEyeTrajectory(type, offset, distanceMeters, numSteps, numRepeats): the
\* curve of the path type over numSteps parameter values, repeated numRepeats
\* times; empty when numSteps < 1 or numRepeats < 1.  A position is named by
\* the inputs that produced it and its place on the curve.
\* (createEyeTrajectory_fromFrame: a generator that starts the curve at the
\* player's current frame)
createEyeTrajectory_fromFrame(type, numSteps, numRepeats) ==
    IF numSteps < 1 \/ numRepeats < 1
    THEN <<>>
    ELSE [k \in 1..(numSteps * numRepeats) |->
            [type |-> type, numSteps |-> numSteps, numRepeats |-> numRepeats,
             k |-> k + frameIndex]]
createEyeTrajectory(type, numSteps, numRepeats) ==
    IF numSteps < 1 \/ numRepeats < 1
    THEN <<>>
    ELSE [k \in 1..(numSteps * numRepeats) |->
            [type |-> type, numSteps |-> numSteps, numRepeats |-> numRepeats, k |-> k]]

\* -------------------------------------------------------- notifications
StateChange(s) == <<"state-change", s>>
FrameChange(frame, total) == <<"frame-change", frame, total>>

\* ---------------------------------------------------- Trajectory Player
\* The player as a record; every operation maps a player to the player after
\* the call, with the notifications of the call appended to emitted.
Player ==
    [trajectory |-> trajectory, state |-> playerState, frameIndex |-> frameIndex,
     elapsed |-> elapsed, emitted |-> <<>>, position |-> <<>>]

\* setTrajectory(sequence): replaces the active sequence; if playing, keeps the
\* state and resets the frame index to 0; notifies frame-change.
TP_setTrajectory(p, sequence) ==
    LET idx == IF p.state = "playing" THEN 0 ELSE p.frameIndex
    IN  [p EXCEPT !.trajectory = sequence,
                  !.frameIndex = idx,
                  !.emitted = Append(@, FrameChange(idx, Len(sequence)))]

\* play(): {stopped, paused} -> playing when a non-empty sequence is loaded;
\* no-op if already playing or the sequence is empty.  restart: whether the
\* call restarts the step clock (the specification leaves it open).
TP_play(p, restart) ==
    IF Len(p.trajectory) = 0 \/ p.state = "playing"
    THEN p
    ELSE [p EXCEPT !.state = "playing",
                   !.elapsed = IF restart THEN 0 ELSE @,
                   !.emitted = Append(@, StateChange("playing"))]

\* pause(): playing -> paused; preserves the frame index; emits state-change.
TP_pause(p) ==
    IF p.state # "playing"
    THEN p
    ELSE [p EXCEPT !.state = "paused",
                   !.emitted = Append(@, StateChange("paused"))]

\* reset(): frame index to 0 without changing state; emits frame-change.
TP_reset(p) ==
    [p EXCEPT !.frameIndex = 0,
              !.emitted = Append(@, FrameChange(0, Len(p.trajectory)))]

\* stop(): any state -> stopped; frame index to 0; emits state-change.
TP_stop(p) ==
    [p EXCEPT !.state = "stopped",
              !.frameIndex = 0,
              !.emitted = Append(@, StateChange("stopped"))]

isPlaying(p) == p.state = "playing"

\* number of sequence steps for an elapsed time: floor(elapsed / frameInterval)
StepsFor(e) == e \div FrameInterval

\* update(now), with now - last-stepped timestamp = p.elapsed: only has effect
\* while playing; advances floor(elapsed / frameInterval) steps; at the end of
\* the sequence stops (non-looping) or wraps (looping); returns the position of
\* the current frame (a one-element sequence), or nothing (the empty sequence).
TP_update(p, looping) ==
    IF p.state # "playing"
    THEN [p EXCEPT !.position = <<>>]
    ELSE
      LET k == StepsFor(p.elapsed)
          n == Len(p.trajectory)
          target == p.frameIndex + k
          at(q) == IF q.state = "playing" /\ q.frameIndex + 1 \in DOMAIN q.trajectory
                   THEN [q EXCEPT !.position = <<q.trajectory[q.frameIndex + 1]>>]
                   ELSE [q EXCEPT !.position = <<>>]
      IN  IF k = 0 THEN at(p)
          ELSE IF target < n
          THEN at([p EXCEPT !.frameIndex = target,
                            !.elapsed = 0,
                            !.emitted = Append(@, FrameChange(target, n))])
          ELSE IF looping /\ n > 0
          THEN at([p EXCEPT !.frameIndex = target % n,
                            !.elapsed = 0,
                            !.emitted = Append(@, FrameChange(target % n, n))])
          ELSE at(TP_stop([p EXCEPT !.elapsed = 0]))

\* ------------------------------------------------------- GaussianViewer
\* trajectoryPlayer.onStateChange: controls are re-enabled when the reported
\* state is not "playing"
OnStateChange(em, enabled) ==
    IF \E i \in DOMAIN em : em[i][1] = "state-change" /\ em[i][2] # "playing"
    THEN TRUE
    ELSE enabled

\* progress through the player operation sequence play, pause, play, stop
\* that starts in state stopped with a non-empty sequence
ScenarioAfter(op) ==
    CASE op = "play" ->
            IF scenario = 2 THEN 3
            ELSE IF playerState = "stopped" /\ Len(trajectory) > 0 THEN 1
            ELSE 0
      [] op = "pause" -> IF scenario = 1 THEN 2 ELSE 0
      [] op = "stop" -> IF scenario = 3 THEN 4 ELSE 0
      [] OTHER -> 0

\* the player after the call of operation op becomes the viewer's player
Install(op, p) ==
    /\ lastOp' = op
    /\ scenario' = ScenarioAfter(op)
    /\ trajectory' = p.trajectory
    /\ playerState' = p.state
    /\ frameIndex' = p.frameIndex
    /\ elapsed' = p.elapsed
    /\ emitted' = p.emitted
    /\ eyePosition' = p.position
    /\ UNCHANGED loop

\* the player is not called
PlayerUntouched ==
    /\ UNCHANGED playerVars
    /\ lastOp' = "none"
    /\ emitted' = <<>>
    /\ eyePosition' = <<>>
    /\ UNCHANGED scenario

\* generateTrajectory() that reads the parameters as they were before the edit
generateTrajectory_staleParams(p, params) ==
    TP_setTrajectory(p, createEyeTrajectory(trajectoryParams.type, trajectoryParams.numSteps,
                                            trajectoryParams.numRepeats))

\* generateTrajectory() whose sequence starts at the player's current frame
generateTrajectory_fromFrame(p, params) ==
    TP_setTrajectory(p, createEyeTrajectory_fromFrame(params.type, params.numSteps,
                                                      params.numRepeats))

\* generateTrajectory(): createEyeTrajectory from the current parameters, then
\* trajectoryPlayer.setTrajectory(positions)
generateTrajectory(p, params) ==
    TP_setTrajectory(p, createEyeTrajectory(params.type, params.numSteps, params.numRepeats))

\* play() that rewinds before it plays
ViewerPlay_rewinds ==
    /\ IF Len(splatMeshes) = 0
       THEN /\ PlayerUntouched
            /\ UNCHANGED controlsEnabled
       ELSE \E restart \in BOOLEAN :
            /\ Install("play", TP_play(TP_reset(Player), restart))
            /\ controlsEnabled' = OnStateChange(emitted', FALSE)
    /\ UNCHANGED <<splatMeshes, trajectoryParams, isDisposed, loadVars, plyVars, quantVars, callVars, uiVars, pageVars, frameVars, camVars>>

\* play()
ViewerPlay ==
    /\ IF Len(splatMeshes) = 0
       THEN /\ PlayerUntouched
            /\ UNCHANGED controlsEnabled
       ELSE \E restart \in BOOLEAN :
            /\ Install("play", TP_play(Player, restart))
            /\ controlsEnabled' = OnStateChange(emitted', FALSE)
    /\ UNCHANGED <<splatMeshes, trajectoryParams, isDisposed, loadVars, plyVars, quantVars, callVars, uiVars, pageVars, frameVars, camVars>>

\* pause() that calls trajectoryPlayer.stop()
ViewerPause_callsStop ==
    /\ Install("pause", TP_stop(Player))
    /\ controlsEnabled' = TRUE
    /\ UNCHANGED <<splatMeshes, trajectoryParams, isDisposed, loadVars, plyVars, quantVars, callVars, uiVars, pageVars, frameVars, camVars>>

\* pause() that also rewinds
ViewerPause_rewinds ==
    /\ Install("pause", TP_reset(TP_pause(Player)))
    /\ controlsEnabled' = TRUE
    /\ UNCHANGED <<splatMeshes, trajectoryParams, isDisposed, loadVars, plyVars, quantVars, callVars, uiVars, pageVars, frameVars, camVars>>

\* pause()
ViewerPause ==
    /\ Install("pause", TP_pause(Player))
    /\ controlsEnabled' = TRUE
    /\ UNCHANGED <<splatMeshes, trajectoryParams, isDisposed, loadVars, plyVars, quantVars, callVars, uiVars, pageVars, frameVars, camVars>>

\* reset() that calls trajectoryPlayer.stop()
ViewerReset_callsStop ==
    /\ Install("reset", TP_stop(Player))
    /\ controlsEnabled' = OnStateChange(emitted', controlsEnabled)
    /\ UNCHANGED <<splatMeshes, trajectoryParams, isDisposed, loadVars, plyVars, quantVars, callVars, uiVars, pageVars, frameVars, camVars>>

\* reset()
ViewerReset ==
    /\ Install("reset", TP_reset(Player))
    /\ controlsEnabled' = OnStateChange(emitted', controlsEnabled)
    /\ UNCHANGED <<splatMeshes, trajectoryParams, isDisposed, loadVars, plyVars, quantVars, callVars, uiVars, pageVars, frameVars, camVars>>

\* stop()
ViewerStop ==
    /\ Install("stop", TP_stop(Player))
    /\ controlsEnabled' = TRUE
    /\ UNCHANGED <<splatMeshes, trajectoryParams, isDisposed, loadVars, plyVars, quantVars, callVars, uiVars, pageVars, frameVars, camVars>>

\* setTrajectoryType(type)
SetTrajectoryType(type) ==
    /\ trajectoryParams' = [trajectoryParams EXCEPT !.type = type]
    /\ Install("setTrajectory", generateTrajectory(Player, trajectoryParams'))
    /\ controlsEnabled' = OnStateChange(emitted', controlsEnabled)
    /\ UNCHANGED <<splatMeshes, isDisposed, loadVars, plyVars, quantVars, callVars, uiVars, pageVars, frameVars, camVars>>

\* the rest of updateTrajectoryParam and resetTrajectoryParams:
\* if (this.splatMeshes.length > 0) this.generateTrajectory()
RegenerateIfLoaded ==
    IF Len(splatMeshes) > 0
    THEN /\ Install("setTrajectory", generateTrajectory(Player, trajectoryParams'))
         /\ controlsEnabled' = OnStateChange(emitted', controlsEnabled)
    ELSE /\ PlayerUntouched
         /\ UNCHANGED controlsEnabled

\* updateTrajectoryParam(key, value) that raises a value below 1 to 1
UpdateTrajectoryParam_clamped(key, value) ==
    /\ trajectoryParams' = [trajectoryParams EXCEPT ![key] = IF value < 1 THEN 1 ELSE value]
    /\ RegenerateIfLoaded
    /\ UNCHANGED <<splatMeshes, isDisposed, loadVars, plyVars, quantVars, callVars, uiVars, pageVars, frameVars, camVars>>

\* updateTrajectoryParam(key, value), key one of numSteps, numRepeats
UpdateTrajectoryParam(key, value) ==
    /\ trajectoryParams' = [trajectoryParams EXCEPT ![key] = value]
    /\ RegenerateIfLoaded
    /\ UNCHANGED <<splatMeshes, isDisposed, loadVars, plyVars, quantVars, callVars, uiVars, pageVars, frameVars, camVars>>

\* resetTrajectoryParams()
ResetTrajectoryParams ==
    /\ trajectoryParams' = DEFAULT_TRAJECTORY_PARAMS
    /\ RegenerateIfLoaded
    /\ UNCHANGED <<splatMeshes, isDisposed, loadVars, plyVars, quantVars, callVars, uiVars, pageVars, frameVars, camVars>>

\* the clock read by animate: dt ticks after the previous read
ClockAfter(dt) == Min(elapsed + dt, MaxElapsed)

\* animate() that hands update the time of the previous frame
Animate_staleNow(dt) ==
    /\ ~isDisposed
    /\ IF isPlaying(Player)
       THEN /\ Install("update", TP_update(Player, loop))
            /\ controlsEnabled' = OnStateChange(emitted', controlsEnabled)
       ELSE /\ UNCHANGED <<trajectory, playerState, frameIndex, loop, scenario>>
            /\ lastOp' = "none"
            /\ emitted' = <<>>
            /\ eyePosition' = <<>>
            /\ UNCHANGED controlsEnabled
    /\ elapsed' \in {0, ClockAfter(dt)}
    /\ UNCHANGED <<splatMeshes, trajectoryParams, isDisposed, loadVars, plyVars, quantVars, callVars, uiVars, pageVars, frameVars, camVars>>

\* animate() that never drives the player
Animate_noUpdate(dt) ==
    /\ ~isDisposed
    /\ elapsed' = ClockAfter(dt)
    /\ UNCHANGED <<trajectory, playerState, frameIndex, loop, scenario>>
    /\ lastOp' = "none"
    /\ emitted' = <<>>
    /\ eyePosition' = <<>>
    /\ UNCHANGED controlsEnabled
    /\ UNCHANGED <<splatMeshes, trajectoryParams, isDisposed, loadVars, plyVars, quantVars, callVars, uiVars, pageVars, frameVars, camVars>>

\* animate(): one animation frame, dt ticks after the previous one
Animate(dt) ==
    /\ ~isDisposed
    /\ IF isPlaying(Player)
       THEN /\ Install("update", TP_update([Player EXCEPT !.elapsed = ClockAfter(dt)], loop))
            /\ controlsEnabled' = OnStateChange(emitted', controlsEnabled)
       ELSE /\ elapsed' = ClockAfter(dt)
            /\ UNCHANGED <<trajectory, playerState, frameIndex, loop, scenario>>
            /\ lastOp' = "none"
            /\ emitted' = <<>>
            /\ eyePosition' = <<>>
            /\ UNCHANGED controlsEnabled
    /\ UNCHANGED <<splatMeshes, trajectoryParams, isDisposed, loadVars, plyVars, quantVars, callVars, uiVars, pageVars, frameVars, camVars>>

\* dispose()
Dispose ==
    /\ isDisposed' = TRUE
    /\ splatMeshes' = <<>>
    /\ PlayerUntouched
    /\ UNCHANGED <<trajectoryParams, controlsEnabled, loadVars, plyVars, quantVars, callVars, uiVars, pageVars, frameVars, camVars>>

\* loadPlySequence(files), up to its first await (file.arrayBuffer()):
\* returns at once for no files, otherwise removes the existing meshes
LoadStart(n) ==
    /\ loadPc = "idle"
    /\ IF n = 0
       THEN UNCHANGED <<splatMeshes, loadVars>>
       ELSE /\ splatMeshes' = <<>>
            /\ loadPc' = "arrayBuffer"
            /\ loadI' = 0
            /\ loadN' = n
    /\ PlayerUntouched
    /\ UNCHANGED <<trajectoryParams, controlsEnabled, isDisposed, plyVars, quantVars, callVars, uiVars, pageVars, frameVars, camVars>>

\* file.arrayBuffer() resolved: the mesh of file i is added to the scene and
\* the list, then splatMesh.initialized is awaited
LoadArrayBuffer ==
    /\ loadPc = "arrayBuffer"
    /\ splatMeshes' = Append(splatMeshes, [file |-> loadI])
    /\ loadPc' = "initialized"
    /\ UNCHANGED <<loadI, loadN>>
    /\ PlayerUntouched
    /\ UNCHANGED <<trajectoryParams, controlsEnabled, isDisposed, plyVars, quantVars, callVars, uiVars, pageVars, frameVars, camVars>>

\* splatMesh.initialized resolved: next file, or after the last file
\* setupCameraForScene, generateTrajectory (when meshes are held) and onLoad
LoadInitialized ==
    /\ loadPc = "initialized"
    /\ IF loadI + 1 < loadN
       THEN /\ loadI' = loadI + 1
            /\ loadPc' = "arrayBuffer"
            /\ UNCHANGED loadN
            /\ PlayerUntouched
            /\ UNCHANGED controlsEnabled
       ELSE /\ loadPc' = "idle"
            /\ loadI' = 0
            /\ loadN' = 0
            /\ IF Len(splatMeshes) > 0
               THEN /\ Install("setTrajectory", generateTrajectory(Player, trajectoryParams))
                    /\ controlsEnabled' = OnStateChange(emitted', controlsEnabled)
               ELSE /\ PlayerUntouched
                    /\ UNCHANGED controlsEnabled
    /\ UNCHANGED <<splatMeshes, trajectoryParams, isDisposed, plyVars, quantVars, callVars, uiVars, pageVars, frameVars, camVars>>

\* file.arrayBuffer() or splatMesh.initialized rejected: the catch block
\* reports the error and rethrows
LoadError ==
    /\ loadPc \in {"arrayBuffer", "initialized"}
    /\ loadPc' = "idle"
    /\ loadI' = 0
    /\ loadN' = 0
    /\ PlayerUntouched
    /\ UNCHANGED <<splatMeshes, trajectoryParams, controlsEnabled, isDisposed, plyVars, quantVars, callVars, uiVars, pageVars, frameVars, camVars>>

\* ======================================================================
\* Metadata codec (utils/plyMetadata.ts)
\* ======================================================================
\* A buffer is a sequence of bytes.  A string is the sequence of its UTF-16
\* code units, so that length, trim, split and startsWith are computed on the
\* decoded text as the code computes them.

\* string literals of the codec, as code units
str_end_header == <<101, 110, 100, 95, 104, 101, 97, 100, 101, 114>>  \* "end_header"
str_format_ == <<102, 111, 114, 109, 97, 116, 32>>  \* "format "
str_element_ == <<101, 108, 101, 109, 101, 110, 116, 32>>  \* "element "
str_property_ == <<112, 114, 111, 112, 101, 114, 116, 121, 32>>  \* "property "
str_binary_little_endian == <<98, 105, 110, 97, 114, 121, 95, 108, 105, 116, 116, 108, 101, 95, 101, 110, 100, 105, 97, 110>>  \* "binary_little_endian"
str_binary_big_endian == <<98, 105, 110, 97, 114, 121, 95, 98, 105, 103, 95, 101, 110, 100, 105, 97, 110>>  \* "binary_big_endian"
str_intrinsic == <<105, 110, 116, 114, 105, 110, 115, 105, 99>>  \* "intrinsic"
str_supplement == <<115, 117, 112, 112, 108, 101, 109, 101, 110, 116>>  \* "supplement"
str_image_size == <<105, 109, 97, 103, 101, 95, 115, 105, 122, 101>>  \* "image_size"
str_extrinsic == <<101, 120, 116, 114, 105, 110, 115, 105, 99>>  \* "extrinsic"
str_color_space == <<99, 111, 108, 111, 114, 95, 115, 112, 97, 99, 101>>  \* "color_space"
\* property type names of getPropertyByteSize
type_char == <<99, 104, 97, 114>>  \* "char"
type_uchar == <<117, 99, 104, 97, 114>>  \* "uchar"
type_int8 == <<105, 110, 116, 56>>  \* "int8"
type_uint8 == <<117, 105, 110, 116, 56>>  \* "uint8"
type_short == <<115, 104, 111, 114, 116>>  \* "short"
type_ushort == <<117, 115, 104, 111, 114, 116>>  \* "ushort"
type_int16 == <<105, 110, 116, 49, 54>>  \* "int16"
type_uint16 == <<117, 105, 110, 116, 49, 54>>  \* "uint16"
type_int == <<105, 110, 116>>  \* "int"
type_uint == <<117, 105, 110, 116>>  \* "uint"
type_int32 == <<105, 110, 116, 51, 50>>  \* "int32"
type_uint32 == <<117, 105, 110, 116, 51, 50>>  \* "uint32"
type_float == <<102, 108, 111, 97, 116>>  \* "float"
type_float32 == <<102, 108, 111, 97, 116, 51, 50>>  \* "float32"
type_double == <<100, 111, 117, 98, 108, 101>>  \* "double"
type_float64 == <<102, 108, 111, 97, 116, 54, 52>>  \* "float64"

\* a JavaScript number: an exact multiple of 1/2 (twice holds two times the
\* value), NaN, or "other" (a value outside the exactly represented range:
\* magnitude 2^29 or more, an infinity, or a fraction finer than 1/2)
Limit == 2^30
Num(v) == [kind |-> "num", twice |-> 2 * v]
NaN == [kind |-> "nan", twice |-> 0]
Other == [kind |-> "other", twice |-> 0]
FromTwice(t) == IF t > -Limit /\ t < Limit THEN [kind |-> "num", twice |-> t] ELSE Other
IntOf(x) == x.twice \div 2
Add(x, y) ==
    IF x.kind = "nan" \/ y.kind = "nan" THEN NaN
    ELSE IF x.kind = "other" \/ y.kind = "other" THEN Other
    ELSE FromTwice(x.twice + y.twice)
\* product of two numbers of which the second is a small integer
MulInt(x, n) ==
    IF x.kind = "nan" THEN NaN
    ELSE IF n = 0 THEN Num(0)
    ELSE IF x.kind = "other" THEN Other
    ELSE IF x.twice > -(Limit \div n) /\ x.twice < Limit \div n
    THEN FromTwice(x.twice * n) ELSE Other
\* x / 2 for x = fx + fy
Halve(x) ==
    IF x.kind # "num" THEN x
    ELSE IF x.twice % 2 = 0 THEN FromTwice(x.twice \div 2) ELSE Other
\* Math.round: to the nearest integer, halves towards +Infinity
MathRound(x) == IF x.kind # "num" THEN x ELSE Num((x.twice + 1) \div 2)
\* x >= 1 (false for NaN)
AtLeastOne(x) == x.kind = "other" \/ (x.kind = "num" /\ x.twice >= 2)

SeqMin(S) == CHOOSE m \in S : \A k \in S : m <= k
SeqMax(S) == CHOOSE m \in S : \A k \in S : m >= k
Drop(q, n) == SubSeq(q, n + 1, Len(q))

\* new TextDecoder("utf-8").decode(bytes): a leading byte order mark is
\* dropped, well-formed 1..4 byte sequences become one code unit (two for a
\* 4-byte sequence), any other byte becomes U+FFFD
IsCont(q, k) == Len(q) >= k /\ q[k] >= 128 /\ q[k] <= 191
RECURSIVE Utf8Sequential(_)
Utf8Sequential(q) ==
    IF q = <<>> THEN <<>>
    ELSE LET c == Head(q) IN
         IF c < 128 THEN <<c>> \o Utf8Sequential(Tail(q))
         ELSE IF c >= 194 /\ c <= 223 /\ IsCont(q, 2)
         THEN <<(c - 192) * 64 + (q[2] - 128)>> \o Utf8Sequential(Drop(q, 2))
         ELSE IF c >= 224 /\ c <= 239 /\ IsCont(q, 2) /\ IsCont(q, 3)
         THEN <<(c - 224) * 4096 + (q[2] - 128) * 64 + (q[3] - 128)>>
                  \o Utf8Sequential(Drop(q, 3))
         ELSE IF c >= 240 /\ c <= 244 /\ IsCont(q, 2) /\ IsCont(q, 3) /\ IsCont(q, 4)
         THEN LET cp == (c - 240) * 262144 + (q[2] - 128) * 4096
                            + (q[3] - 128) * 64 + (q[4] - 128) - 65536
              IN  <<55296 + (cp \div 1024), 56320 + (cp % 1024)>>
                      \o Utf8Sequential(Drop(q, 4))
         ELSE <<65533>> \o Utf8Sequential(Tail(q))
\* the same decoding, cut at the first byte below 128 in the second half:
\* such a byte is a code unit by itself and ends any sequence before it
RECURSIVE Utf8Units(_)
Utf8Units(q) ==
    LET mid == (Len(q) + 1) \div 2
        cut(k) == q[k] < 128 /\ \A j \in mid..(k - 1) : q[j] >= 128
        pivot == CHOOSE k \in mid..Len(q) : cut(k)
    IN  IF Len(q) <= 4 \/ ~\E k \in mid..Len(q) : cut(k) THEN Utf8Sequential(q)
        ELSE Utf8Units(SubSeq(q, 1, pivot - 1)) \o <<q[pivot]>>
                 \o Utf8Units(Drop(q, pivot))
TextDecode(bytes) ==
    IF Len(bytes) >= 3 /\ SubSeq(bytes, 1, 3) = <<239, 187, 191>>
    THEN Utf8Units(Drop(bytes, 3)) ELSE Utf8Units(bytes)

\* text.split("\n")
RECURSIVE SplitLines(_)
SplitLines(text) ==
    LET nl == {k \in 1..Len(text) : text[k] = 10} IN
    IF nl = {} THEN <<text>>
    ELSE <<SubSeq(text, 1, SeqMin(nl) - 1)>> \o SplitLines(Drop(text, SeqMin(nl)))

\* white space of trim() and of the pattern \s
WhiteSpace == {9, 10, 11, 12, 13, 32, 160, 5760, 8232, 8233, 8239, 8287, 12288, 65279}
    \cup (8192..8202)
\* line.trim()
Trim(str) ==
    LET ink == {k \in 1..Len(str) : str[k] \notin WhiteSpace} IN
    IF ink = {} THEN <<>> ELSE SubSeq(str, SeqMin(ink), SeqMax(ink))
\* trimmed.split(/\s+/) of a string that starts and ends with a non-blank
RECURSIVE SplitBlanks(_)
SplitBlanks(str) ==
    LET ws == {k \in 1..Len(str) : str[k] \in WhiteSpace}
        ink == {k \in 1..Len(str) : str[k] \notin WhiteSpace /\ ws # {} /\ k > SeqMin(ws)}
    IN  IF ws = {} THEN <<str>>
        ELSE <<SubSeq(str, 1, SeqMin(ws) - 1)>> \o SplitBlanks(Drop(str, SeqMin(ink) - 1))
\* str.startsWith(prefix)
StartsWith(str, prefix) ==
    Len(str) >= Len(prefix) /\ SubSeq(str, 1, Len(prefix)) = prefix

\* Number.parseInt(str, 10): optional sign, then the longest run of digits
RECURSIVE DigitsValue(_, _)
DigitsValue(digits, acc) ==
    IF digits = <<>> THEN acc
    ELSE IF acc >= Limit \div 16 THEN DigitsValue(Tail(digits), Limit \div 16)
    ELSE DigitsValue(Tail(digits), acc * 10 + (Head(digits) - 48))
ParseDigits(digits, negative) ==
    IF digits = <<>> THEN NaN
    ELSE IF DigitsValue(digits, 0) >= Limit \div 16 THEN Other
    ELSE IF negative THEN Num(0 - DigitsValue(digits, 0))
    ELSE Num(DigitsValue(digits, 0))
LeadingDigits(str) ==
    SubSeq(str, 1, Len(str) - Cardinality({k \in 1..Len(str) :
                       \E j \in 1..k : str[j] < 48 \/ str[j] > 57}))
ParseInt(str) ==
    IF str # <<>> /\ str[1] \in {43, 45}
    THEN ParseDigits(LeadingDigits(Tail(str)), str[1] = 45)
    ELSE ParseDigits(LeadingDigits(str), FALSE)

\* getPropertyByteSize(type)
getPropertyByteSize(type) ==
    CASE type \in {type_char, type_uchar, type_int8, type_uint8} -> 1
      [] type \in {type_short, type_ushort, type_int16, type_uint16} -> 2
      [] type \in {type_int, type_uint, type_int32, type_uint32,
                   type_float, type_float32} -> 4
      [] type \in {type_double, type_float64} -> 8
      [] OTHER -> 4

RECURSIVE SumSeq(_)
SumSeq(q) == IF q = <<>> THEN 0 ELSE Head(q) + SumSeq(Tail(q))
\* properties.reduce((sum, p) => sum + p.byteSize, 0)
BytesPerElement(properties) ==
    SumSeq([k \in DOMAIN properties |-> properties[k].byteSize])

\* "Save previous element" / "Save last element": h holds the element objects
\* created so far (objs), the list elements of references to them and
\* currentElement (a reference, 0 for null)
SaveElement(h) ==
    IF h.currentElement # 0
    THEN [h EXCEPT
            !.objs[h.currentElement].bytesPerElement =
                BytesPerElement(h.objs[h.currentElement].properties),
            !.elements = Append(@, h.currentElement)]
    ELSE h

\* the branches of the loop body of parsePlyHeader, for a line whose trimmed
\* text is trimmed and whose blank-separated parts are parts; h already
\* counts the line in byteOffset
HeaderLine(h, trimmed, parts) ==
    IF trimmed = str_end_header
    THEN [h EXCEPT !.headerEndIndex = h.byteOffset, !.done = TRUE]
    ELSE IF StartsWith(trimmed, str_format_)
    THEN IF parts[2] = str_binary_little_endian
         THEN [h EXCEPT !.format = "binary_little_endian"]
         ELSE IF parts[2] = str_binary_big_endian
         THEN [h EXCEPT !.format = "binary_big_endian"]
         ELSE h
    ELSE IF StartsWith(trimmed, str_element_)
    THEN IF Len(parts) >= 3
         THEN [SaveElement(h) EXCEPT
                 !.objs = Append(@, [name |-> parts[2],
                                     count |-> ParseInt(parts[3]),
                                     properties |-> <<>>,
                                     bytesPerElement |-> 0]),
                 !.currentElement = Len(h.objs) + 1]
         ELSE SaveElement(h)
    ELSE IF StartsWith(trimmed, str_property_) /\ h.currentElement # 0
    THEN IF Len(parts) >= 3
         THEN [h EXCEPT
                 !.objs[h.currentElement].properties =
                     Append(@, [name |-> parts[Len(parts)],
                                type |-> parts[2],
                                byteSize |-> getPropertyByteSize(parts[2])])]
         ELSE h
    ELSE h

\* one iteration of the loop of parsePlyHeader
HeaderStep(h, line) ==
    HeaderLine([h EXCEPT !.byteOffset = @ + Len(line) + 1],
               Trim(line), SplitBlanks(Trim(line)))

RECURSIVE HeaderLoop(_, _, _)
HeaderLoop(h, lines, k) ==
    IF k > Len(lines) \/ h.done THEN h
    ELSE HeaderLoop(HeaderStep(h, lines[k]), lines, k + 1)

\* the state of the loop of parsePlyHeader before its first line
HeaderStart ==
    [byteOffset |-> 0, headerEndIndex |-> 0, format |-> "ascii",
     objs |-> <<>>, elements |-> <<>>, currentElement |-> 0, done |-> FALSE]
\* return { headerEndIndex, elements, format }
HeaderResult(h) ==
    [headerEndIndex |-> h.headerEndIndex,
     elements |-> [k \in DOMAIN h.elements |-> h.objs[h.elements[k]]],
     format |-> h.format]
\* parsePlyHeader(text): headerEndIndex, the elements in the order they were
\* pushed, and the format
parsePlyHeader(text) ==
    HeaderResult(SaveElement(HeaderLoop(HeaderStart, SplitLines(text), 1)))

\* ---- DataView -------------------------------------------------------
\* view.getXxx(offset) on `size` bytes: the offset is converted by ToIndex
\* (NaN becomes 0); a negative or out-of-bounds offset throws a RangeError
ToIndex(offset) == IF offset.kind = "nan" THEN 0 ELSE IntOf(offset)
InBounds(buffer, offset, size) ==
    /\ offset.kind \in {"num", "nan"}
    /\ ToIndex(offset) >= 0
    /\ ToIndex(offset) + size <= Len(buffer)
\* the bytes buffer[index .. index + size - 1], indices counted from 0
BytesAt(buffer, index, size) == SubSeq(buffer, index + 1, index + size)

\* getUint32(offset, true)
Uint32LE(b) ==
    IF b[4] >= 32 THEN Other
    ELSE Num(b[1] + 256 * b[2] + 65536 * b[3] + 16777216 * b[4])
\* getFloat32(offset, true): IEEE 754 binary32
Float32LE(b) ==
    LET negative == b[4] >= 128
        e == (b[4] % 128) * 2 + (b[3] \div 128)
        m == (b[3] % 128) * 65536 + b[2] * 256 + b[1]
        sig == 8388608 + m
        mag == IF e >= 149
               THEN IF e - 149 > 6 THEN Limit ELSE sig * 2^(e - 149)
               ELSE IF 149 - e > 23 \/ sig % 2^(149 - e) # 0 THEN Limit
               ELSE sig \div 2^(149 - e)
    IN  IF e = 255 THEN (IF m = 0 THEN Other ELSE NaN)
        ELSE IF e = 0 THEN (IF m = 0 THEN Num(0) ELSE Other)
        ELSE IF mag >= Limit THEN Other
        ELSE [kind |-> "num", twice |-> IF negative THEN 0 - mag ELSE mag]

\* readUints / readFloats(view, offset, count, true): the values, or a throw
\* at the first read out of bounds; reads is the set of byte indices fetched
\* through the view before that
ReadWords(buffer, offset, count, float) ==
    LET at(k) == Add(offset, Num((k - 1) * 4))
        bad == {k \in 1..count : ~InBounds(buffer, at(k), 4)}
        done == IF bad = {} THEN count ELSE SeqMin(bad) - 1
        word(k) == BytesAt(buffer, ToIndex(at(k)), 4)
    IN  [ok |-> bad = {},
         values |-> [k \in 1..done |->
                        IF float THEN Float32LE(word(k)) ELSE Uint32LE(word(k))],
         reads |-> UNION {ToIndex(at(k))..(ToIndex(at(k)) + 3) : k \in 1..done}]
readUints(buffer, offset, count) == ReadWords(buffer, offset, count, FALSE)
readFloats(buffer, offset, count) == ReadWords(buffer, offset, count, TRUE)

\* decodeColorSpace(value)
decodeColorSpace(value) == IF value = 0 THEN "linearRGB" ELSE "sRGB"

\* ---- parsePlyMetadata -------------------------------------------------
HeaderWindow == 10000
Identity3 == <<Num(1), Num(0), Num(0),
               Num(0), Num(1), Num(0),
               Num(0), Num(0), Num(1)>>
Identity4 == <<Num(1), Num(0), Num(0), Num(0),
               Num(0), Num(1), Num(0), Num(0),
               Num(0), Num(0), Num(1), Num(0),
               Num(0), Num(0), Num(0), Num(1)>>
\* DEFAULT_METADATA without its two matrix objects.  Every record the codec
\* returns is a shallow copy of it and so refers to the same Matrix3 and
\* Matrix4; their contents are the variables defaultIntrinsics and
\* defaultExtrinsics, written as the arguments of Matrix.set in row-major order
DEFAULT_METADATA ==
    [imageSize |-> <<Num(640), Num(480)>>, focalLength |-> Num(0),
     colorSpace |-> "sRGB", hasMetadata |-> FALSE]

\* elementMap.get(name): the last element of that name, 0 for undefined
ElementIndex(elements, name) ==
    LET ks == {k \in DOMAIN elements : elements[k].name = name} IN
    IF ks = {} THEN 0 ELSE SeqMax(ks)
\* the offset recorded for element k: headerEndIndex plus count *
\* bytesPerElement of the elements before it
\* variant: every element is taken to start where the header ends
ElementOffset_atHeaderEnd(elements, headerEndIndex, k) == Num(headerEndIndex)

RECURSIVE ElementOffset(_, _, _)
ElementOffset(elements, headerEndIndex, k) ==
    IF k <= 1 THEN Num(headerEndIndex)
    ELSE Add(ElementOffset(elements, headerEndIndex, k - 1),
             MulInt(elements[k - 1].count, elements[k - 1].bytesPerElement))

\* The four reading blocks of parsePlyMetadata.  r is the state of the call:
\* metadata (the record being filled), intrinsics and extrinsics (contents of
\* the shared matrix objects), reads (byte indices fetched through the view)
\* and thrown (a read has thrown, the remaining blocks are skipped).  Each
\* block is given the element el it looks up (<<>> for undefined, else
\* <<element>>), the offset recorded for it and the outcome rd of its reads.
Throw(r, rd) == [r EXCEPT !.thrown = TRUE, !.reads = @ \cup rd.reads]
\* elementMap.get(name) as <<>> or <<element>>
Lookup(elements, name) ==
    IF ElementIndex(elements, name) = 0 THEN <<>>
    ELSE <<elements[ElementIndex(elements, name)]>>
\* elementOffsets.get(name)
OffsetOf(hdr, name) ==
    ElementOffset(hdr.elements, hdr.headerEndIndex, ElementIndex(hdr.elements, name))
\* if (el && el.count >= 1)
Present(el) == el # <<>> /\ AtLeastOne(el[1].count)

\* Read image_size if present
ImageSizeFrom(r, rd) ==
    IF ~rd.ok THEN Throw(r, rd)
    ELSE [r EXCEPT !.metadata.imageSize = <<rd.values[1], rd.values[2]>>,
                   !.reads = @ \cup rd.reads]
ReadImageSize(r, buffer, hdr) ==
    IF r.thrown \/ ~Present(Lookup(hdr.elements, str_image_size)) THEN r
    ELSE ImageSizeFrom(r, readUints(buffer, OffsetOf(hdr, str_image_size), 2))

\* Read intrinsic if present: 3x3 intrinsic matrix
IntrinsicFrom9(r, rd) ==
    IF ~rd.ok THEN Throw(r, rd)
    ELSE [r EXCEPT
            !.metadata.focalLength = Halve(Add(rd.values[1], rd.values[5])),
            !.intrinsics = rd.values,
            !.reads = @ \cup rd.reads]
\* Legacy: fx, fy, width, height
IntrinsicFrom4(r, rd, imageSizeEl) ==
    IF ~rd.ok THEN Throw(r, rd)
    ELSE [r EXCEPT
            !.metadata.focalLength = Halve(Add(rd.values[1], rd.values[2])),
            !.metadata.imageSize =
                IF imageSizeEl = <<>>
                THEN <<MathRound(rd.values[3]), MathRound(rd.values[4])>>
                ELSE @,
            !.reads = @ \cup rd.reads]
IntrinsicOf(r, buffer, hdr, el) ==
    IF r.thrown \/ ~Present(el) THEN r
    ELSE IF Len(el[1].properties) = 9
    THEN IntrinsicFrom9(r, readFloats(buffer, OffsetOf(hdr, str_intrinsic), 9))
    ELSE IF Len(el[1].properties) = 4
    THEN IntrinsicFrom4(r, readFloats(buffer, OffsetOf(hdr, str_intrinsic), 4),
                        Lookup(hdr.elements, str_image_size))
    ELSE r
ReadIntrinsic(r, buffer, hdr) ==
    IntrinsicOf(r, buffer, hdr, Lookup(hdr.elements, str_intrinsic))

\* Read extrinsic if present: 4x4 extrinsic matrix
ExtrinsicFrom16(r, rd, v) ==
    IF ~rd.ok THEN Throw(r, rd)
    ELSE [r EXCEPT
            !.extrinsics = <<v[1], v[5], v[9], v[13],
                             v[2], v[6], v[10], v[14],
                             v[3], v[7], v[11], v[15],
                             v[4], v[8], v[12], v[16]>>,
            !.reads = @ \cup rd.reads]
\* Legacy: 3x4 matrix
ExtrinsicFrom12(r, rd, v) ==
    IF ~rd.ok THEN Throw(r, rd)
    ELSE [r EXCEPT
            !.extrinsics = <<v[1], v[5], v[9], Num(0),
                             v[2], v[6], v[10], Num(0),
                             v[3], v[7], v[11], Num(0),
                             v[4], v[8], v[12], Num(1)>>,
            !.reads = @ \cup rd.reads]
ExtrinsicFrom(r, rd, propCount) ==
    IF propCount = 16 THEN ExtrinsicFrom16(r, rd, rd.values)
    ELSE ExtrinsicFrom12(r, rd, rd.values)
ExtrinsicOf(r, buffer, hdr, el) ==
    IF r.thrown \/ ~Present(el) THEN r
    ELSE IF Len(el[1].properties) \in {16, 12}
    THEN ExtrinsicFrom(r, readFloats(buffer, OffsetOf(hdr, str_extrinsic),
                                     Len(el[1].properties)),
                       Len(el[1].properties))
    ELSE r
ReadExtrinsic(r, buffer, hdr) ==
    ExtrinsicOf(r, buffer, hdr, Lookup(hdr.elements, str_extrinsic))

\* Read color_space if present
ColorSpaceAt(r, buffer, offset) ==
    IF ~InBounds(buffer, offset, 1) THEN [r EXCEPT !.thrown = TRUE]
    ELSE [r EXCEPT
            !.metadata.colorSpace =
                decodeColorSpace(BytesAt(buffer, ToIndex(offset), 1)[1]),
            !.reads = @ \cup {ToIndex(offset)}]
ReadColorSpace(r, buffer, hdr) ==
    IF r.thrown \/ ~Present(Lookup(hdr.elements, str_color_space)) THEN r
    ELSE ColorSpaceAt(r, buffer, OffsetOf(hdr, str_color_space))

\* variant: every binary format is read
FormatSupported_anyBinary(format) == format # "ascii"

\* the format check of parsePlyMetadata: only binary little endian is read
FormatSupported(format) == format = "binary_little_endian"

\* what a call returns: the record, the shared matrices after the call and
\* the byte indices read through the DataView
Returned(metadata, intrinsics, extrinsics, reads) ==
    [metadata |-> metadata, intrinsics |-> intrinsics, extrinsics |-> extrinsics,
     reads |-> reads]
\* return metadata, or the catch block
Outcome(r) ==
    Returned(IF r.thrown THEN DEFAULT_METADATA ELSE r.metadata,
             r.intrinsics, r.extrinsics, r.reads)
\* const metadata = { ...DEFAULT_METADATA, hasMetadata: true } and the blocks
ReadAll(buffer, hdr, intrinsics, extrinsics) ==
    ReadColorSpace(
        ReadExtrinsic(
            ReadIntrinsic(
                ReadImageSize(
                    [metadata |-> [DEFAULT_METADATA EXCEPT !.hasMetadata = TRUE],
                     intrinsics |-> intrinsics, extrinsics |-> extrinsics,
                     reads |-> {}, thrown |-> FALSE],
                    buffer, hdr),
                buffer, hdr),
            buffer, hdr),
        buffer, hdr)
\* parsePlyMetadata after the header has been parsed into hdr
Decode(buffer, hdr, intrinsics, extrinsics) ==
    IF ~FormatSupported(hdr.format)
    THEN Returned(DEFAULT_METADATA, intrinsics, extrinsics, {})
    ELSE IF Lookup(hdr.elements, str_intrinsic) = <<>>
            /\ Lookup(hdr.elements, str_supplement) = <<>>
            /\ Lookup(hdr.elements, str_image_size) = <<>>
    THEN Returned(DEFAULT_METADATA, intrinsics, extrinsics, {})
    ELSE Outcome(ReadAll(buffer, hdr, intrinsics, extrinsics))

\* parsePlyMetadata(buffer), called when the shared matrices hold intrinsics
\* and extrinsics
parsePlyMetadata(buffer, intrinsics, extrinsics) ==
    Decode(buffer,
           parsePlyHeader(TextDecode(SubSeq(buffer, 1, Min(Len(buffer), HeaderWindow)))),
           intrinsics, extrinsics)

\* ---- files handed to the codec ---------------------------------------
\* header lines, as bytes
line_ply == <<112, 108, 121>>  \* "ply"
line_format_le == <<102, 111, 114, 109, 97, 116, 32, 98, 105, 110, 97, 114, 121, 95, 108, 105, 116, 116, 108, 101, 95, 101, 110, 100, 105, 97, 110, 32, 49, 46, 48>>  \* "format binary_little_endian 1.0"
line_format_be == <<102, 111, 114, 109, 97, 116, 32, 98, 105, 110, 97, 114, 121, 95, 98, 105, 103, 95, 101, 110, 100, 105, 97, 110, 32, 49, 46, 48>>  \* "format binary_big_endian 1.0"
line_format_ascii == <<102, 111, 114, 109, 97, 116, 32, 97, 115, 99, 105, 105, 32, 49, 46, 48>>  \* "format ascii 1.0"
line_element_vertex == <<101, 108, 101, 109, 101, 110, 116, 32, 118, 101, 114, 116, 101, 120, 32, 49>>  \* "element vertex 1"
line_property_x == <<112, 114, 111, 112, 101, 114, 116, 121, 32, 102, 108, 111, 97, 116, 32, 120>>  \* "property float x"
line_element_image_size == <<101, 108, 101, 109, 101, 110, 116, 32, 105, 109, 97, 103, 101, 95, 115, 105, 122, 101, 32, 49>>  \* "element image_size 1"
line_element_image_size_bad == <<101, 108, 101, 109, 101, 110, 116, 32, 105, 109, 97, 103, 101, 95, 115, 105, 122, 101, 32, 120>>  \* "element image_size x"
line_property_width == <<112, 114, 111, 112, 101, 114, 116, 121, 32, 117, 105, 110, 116, 32, 119, 105, 100, 116, 104>>  \* "property uint width"
line_property_height == <<112, 114, 111, 112, 101, 114, 116, 121, 32, 117, 105, 110, 116, 32, 104, 101, 105, 103, 104, 116>>  \* "property uint height"
line_element_intrinsic == <<101, 108, 101, 109, 101, 110, 116, 32, 105, 110, 116, 114, 105, 110, 115, 105, 99, 32, 49>>  \* "element intrinsic 1"
line_property_k == <<112, 114, 111, 112, 101, 114, 116, 121, 32, 102, 108, 111, 97, 116, 32, 107>>  \* "property float k"
line_element_color_space == <<101, 108, 101, 109, 101, 110, 116, 32, 99, 111, 108, 111, 114, 95, 115, 112, 97, 99, 101, 32, 49>>  \* "element color_space 1"
line_property_color_space == <<112, 114, 111, 112, 101, 114, 116, 121, 32, 117, 99, 104, 97, 114, 32, 99, 111, 108, 111, 114, 95, 115, 112, 97, 99, 101>>  \* "property uchar color_space"
line_element_extrinsic == <<101, 108, 101, 109, 101, 110, 116, 32, 101, 120, 116, 114, 105, 110, 115, 105, 99, 32, 49>>  \* "element extrinsic 1"
line_property_e == <<112, 114, 111, 112, 101, 114, 116, 121, 32, 102, 108, 111, 97, 116, 32, 101>>  \* "property float e"
line_end_header == <<101, 110, 100, 95, 104, 101, 97, 100, 101, 114>>  \* "end_header"

\* a 32-bit float and a 32-bit unsigned integer, little endian
f32(v) ==
    CASE v = 0 -> <<0, 0, 0, 0>>
      [] v = 1 -> <<0, 0, 128, 63>>
      [] v = 2 -> <<0, 0, 0, 64>>
      [] v = 3 -> <<0, 0, 64, 64>>
      [] v = 4 -> <<0, 0, 128, 64>>
      [] v = 5 -> <<0, 0, 160, 64>>
      [] v = 6 -> <<0, 0, 192, 64>>
      [] v = 7 -> <<0, 0, 224, 64>>
      [] v = 8 -> <<0, 0, 0, 65>>
      [] v = 9 -> <<0, 0, 16, 65>>
      [] v = 10 -> <<0, 0, 32, 65>>
      [] v = 11 -> <<0, 0, 48, 65>>
      [] v = 12 -> <<0, 0, 64, 65>>
      [] v = 13 -> <<0, 0, 80, 65>>
      [] v = 14 -> <<0, 0, 96, 65>>
      [] v = 15 -> <<0, 0, 112, 65>>
      [] v = 16 -> <<0, 0, 128, 65>>
      [] v = 240 -> <<0, 0, 112, 67>>
      [] v = 320 -> <<0, 0, 160, 67>>
      [] v = 500 -> <<0, 0, 250, 67>>
      [] v = 600 -> <<0, 0, 22, 68>>
u32(n) == <<n % 256, (n \div 256) % 256, (n \div 65536) % 256, n \div 16777216>>

RECURSIVE Flatten(_)
Flatten(qs) == IF qs = <<>> THEN <<>> ELSE Head(qs) \o Flatten(Tail(qs))

\* the element declarations of a layout and a body that fills them; the body
\* holds image size (w, h), focal lengths (fx, fy) and color space byte c
Properties(line, n) == [k \in 1..n |-> line]
LayoutLines(layout) ==
    CASE layout = "none" -> <<>>
      [] layout = "vertex" -> <<line_element_vertex, line_property_x>>
      [] layout = "image_size" ->
            <<line_element_image_size, line_property_width, line_property_height>>
      [] layout = "bad_count" ->
            <<line_element_image_size_bad, line_property_width, line_property_height>>
      [] layout = "legacy" -> <<line_element_intrinsic>> \o Properties(line_property_k, 4)
      [] layout = "full" ->
            <<line_element_vertex, line_property_x,
              line_element_image_size, line_property_width, line_property_height,
              line_element_intrinsic>> \o Properties(line_property_k, 9)
            \o <<line_element_color_space, line_property_color_space>>
      [] layout = "color_space" ->
            <<line_element_color_space, line_property_color_space>>
      [] layout = "extrinsic" ->
            <<line_element_extrinsic>> \o Properties(line_property_e, 16)
      [] layout = "posed" ->
            <<line_element_image_size, line_property_width, line_property_height,
              line_element_extrinsic>> \o Properties(line_property_e, 16)
      [] layout = "posed_legacy" ->
            <<line_element_image_size, line_property_width, line_property_height,
              line_element_extrinsic>> \o Properties(line_property_e, 12)
\* stored floats number 0 .. n - 1 of an extrinsic element: float number k
\* holds the value k + 1
StoredFloats(n) == Flatten([k \in 1..n |-> f32(k)])
LayoutBody(layout, w, h, fx, fy, c) ==
    CASE layout = "none" -> <<>>
      [] layout = "vertex" -> f32(1)
      [] layout \in {"image_size", "bad_count"} -> u32(w) \o u32(h)
      [] layout = "legacy" -> f32(fx) \o f32(fy) \o f32(w) \o f32(h)
      [] layout = "full" ->
            f32(1) \o u32(w) \o u32(h)
            \o f32(fx) \o f32(0) \o f32(320) \o f32(0) \o f32(fy) \o f32(240)
            \o f32(0) \o f32(0) \o f32(1) \o <<c>>
      [] layout = "color_space" -> <<c>>
      [] layout = "extrinsic" -> StoredFloats(16)
      [] layout = "posed" -> u32(w) \o u32(h) \o StoredFloats(16)
      [] layout = "posed_legacy" -> u32(w) \o u32(h) \o StoredFloats(12)

Layouts == {"none", "vertex", "image_size", "bad_count", "legacy", "full"}
\* layouts with an extrinsic element or with a color_space element only
PoseLayouts == {"color_space", "extrinsic", "posed", "posed_legacy"}
\* the format lines of a header, in order
FormatLines(format) ==
    CASE format = "none" -> <<>>
      [] format = "ascii" -> <<line_format_ascii>>
      [] format = "binary_big_endian" -> <<line_format_be>>
      [] format = "binary_little_endian" -> <<line_format_le>>
      [] format = "little_then_ascii" -> <<line_format_le, line_format_ascii>>
      [] format = "big_then_little" -> <<line_format_be, line_format_le>>
Formats == {"none", "ascii", "binary_big_endian", "binary_little_endian",
            "little_then_ascii", "big_then_little"}
Bodies == {"full", "other", "empty"}

\* files: every combination of the above, well-formed little-endian files
\* of the pose layouts, and little-endian files whose body lacks its last
\* byte ("cut")
Files ==
    [format : Formats, layout : Layouts, eol : {<<10>>, <<13, 10>>},
     terminated : BOOLEAN, body : Bodies]
    \cup [format : {"binary_little_endian"}, layout : PoseLayouts,
          eol : {<<10>>}, terminated : {TRUE}, body : Bodies]
    \cup [format : {"binary_little_endian"}, layout : {"full", "posed"},
          eol : {<<10>>}, terminated : {TRUE}, body : {"cut"}]
\* the values the two complete bodies hold
BodyValues(body) ==
    IF body = "other" THEN [w |-> 320, h |-> 240, fx |-> 600, fy |-> 500, c |-> 0]
    ELSE [w |-> 600, h |-> 320, fx |-> 500, fy |-> 500, c |-> 1]
FullBody(layout) == LayoutBody(layout, 600, 320, 500, 500, 1)
\* the bytes of a file: the header lines, each ended by eol, then the body
FileBytes(file) ==
    LET header == <<line_ply>> \o FormatLines(file.format) \o LayoutLines(file.layout)
                      \o (IF file.terminated THEN <<line_end_header>> ELSE <<>>)
    IN  Flatten([k \in DOMAIN header |-> header[k] \o file.eol])
        \o (CASE file.body = "full" -> FullBody(file.layout)
              [] file.body = "other" -> LayoutBody(file.layout, 320, 240, 600, 500, 0)
              [] file.body = "cut" ->
                    SubSeq(FullBody(file.layout), 1, Len(FullBody(file.layout)) - 1)
              [] file.body = "empty" -> <<>>)

\* ---- the codec as the viewer uses it: one call per loaded file ---------
NoFile == [format |-> "none", layout |-> "none", eol |-> <<10>>,
           terminated |-> FALSE, body |-> "no file"]
\* no file has been handed to the codec
PlyIdle ==
    /\ plyFile = NoFile
    /\ plyResult = <<>>
    /\ plyReads = {}
    /\ defaultIntrinsics = Identity3
    /\ defaultExtrinsics = Identity4

\* a load begins with its first file, once the load before it has decoded
\* its own
PlyPick(file) ==
    /\ plyFile = NoFile \/ plyResult # <<>>
    /\ plyFile' = file
    /\ plyResult' = <<>>
    /\ plyReads' = {}
    /\ UNCHANGED <<defaultIntrinsics, defaultExtrinsics>>
    /\ UNCHANGED <<playerVars, viewerVars, loadVars, obsVars, quantVars, callVars, uiVars, pageVars, frameVars, camVars>>

\* this.metadata = ..., with what the call did to the shared matrices
PlyStore(out) ==
    /\ plyResult' = <<out.metadata>>
    /\ plyReads' = out.reads
    /\ defaultIntrinsics' = out.intrinsics
    /\ defaultExtrinsics' = out.extrinsics

\* const buffer = await file.arrayBuffer();
\* if (i === 0) this.metadata = parsePlyMetadata(buffer)
PlyParse ==
    /\ plyFile # NoFile
    /\ plyResult = <<>>
    /\ PlyStore(parsePlyMetadata(FileBytes(plyFile), defaultIntrinsics,
                                 defaultExtrinsics))
    /\ UNCHANGED plyFile
    /\ UNCHANGED <<playerVars, viewerVars, loadVars, obsVars, quantVars, callVars, uiVars, pageVars, frameVars, camVars>>

\* ---- headers written from a list of element declarations ---------------
\* A declared file is written by a PLY writer from: the line ending, a
\* comment line, and the elements in body order, each with its name, record
\* count and property types.  form tells how the element line came out:
\* "ok" for element <name> <count>, "no_count" for element <name>,
\* "bad_count" for element <name> x.  A damaged element holds no records
\* and no properties, so it takes no bytes of the body.
str_vertex == <<118, 101, 114, 116, 101, 120>>  \* "vertex"
str_extra == <<101, 120, 116, 114, 97>>  \* "extra"
str_comment_ == <<99, 111, 109, 109, 101, 110, 116, 32>>  \* "comment "
str_sharp == <<115, 104, 97, 114, 112>>  \* "sharp"
str_cafe == <<99, 97, 102, 195, 169>>  \* "café", é in two bytes
str_euro == <<226, 130, 172, 53>>  \* "€5", € in three bytes
\* record count of the large vertex element
MaxVertices == 300

RECURSIVE Decimal(_)
Decimal(n) == IF n < 10 THEN <<48 + n>> ELSE Decimal(n \div 10) \o <<48 + (n % 10)>>

Declared(name, count, types, form) ==
    [name |-> name, count |-> count, types |-> types, form |-> form]
VertexOf(count) == Declared(str_vertex, count, <<type_float, type_float, type_float>>, "ok")
ColoredOf(count) == Declared(str_vertex, count, <<type_double, type_uchar, type_short>>, "ok")
ImageSizeDeclared == Declared(str_image_size, 1, <<type_uint, type_uint>>, "ok")
Damaged(form) == Declared(str_extra, 0, <<>>, form)

\* the header lines of one declared element
ElementLines(el) ==
    <<str_element_ \o el.name
        \o (CASE el.form = "ok" -> <<32>> \o Decimal(el.count)
              [] el.form = "no_count" -> <<>>
              [] el.form = "bad_count" -> <<32, 120>>)>>
    \o [k \in DOMAIN el.types |-> str_property_ \o el.types[k] \o <<32, 112>>]
\* the comment line of a header, if any; "long" pads the header beyond the
\* window parsePlyMetadata decodes
CommentLines(comment) ==
    CASE comment = "none" -> <<>>
      [] comment = "ascii" -> <<str_comment_ \o str_sharp>>
      [] comment = "two_byte" -> <<str_comment_ \o str_cafe>>
      [] comment = "three_byte" -> <<str_comment_ \o str_euro>>
      [] comment = "long" -> <<str_comment_ \o [k \in 1..HeaderWindow |-> 120]>>
\* the header as written: ply, format, the elements, the comment, end_header
DeclaredHeader(file) ==
    LET header == <<line_ply, line_format_le>>
                      \o Flatten([k \in DOMAIN file.elements |->
                                     ElementLines(file.elements[k])])
                      \o CommentLines(file.comment) \o <<line_end_header>>
    IN  Flatten([k \in DOMAIN header |-> header[k] \o file.eol])
\* bytes of one record of an element, and of the element
RecordWidth(el) == SumSeq([k \in DOMAIN el.types |-> getPropertyByteSize(el.types[k])])
ElementBytes(el) ==
    IF el.name = str_image_size THEN u32(600) \o u32(320)
    ELSE [k \in 1..(el.count * RecordWidth(el)) |-> 0]
\* the file: header, then the records of each element in order
DeclaredBytes(file) ==
    DeclaredHeader(file)
    \o Flatten([k \in DOMAIN file.elements |-> ElementBytes(file.elements[k])])

\* bytes of the body before element k
RECURSIVE BytesBefore(_, _)
BytesBefore(elements, k) ==
    IF k <= 1 THEN 0
    ELSE BytesBefore(elements, k - 1)
             + elements[k - 1].count * RecordWidth(elements[k - 1])
\* the image_size element that is read: the last one declared
LastImageSize(elements) ==
    SeqMax({k \in DOMAIN elements : elements[k].name = str_image_size})
\* the byte indices of the two words of the image_size element, for a body
\* that starts at byte bodyStart
ImageSizeBytes(elements, bodyStart) ==
    (bodyStart + BytesBefore(elements, LastImageSize(elements)))
        ..(bodyStart + BytesBefore(elements, LastImageSize(elements)) + 7)

\* element lists: image_size alone, after a small and after a large vertex
\* element, after elements sharing a name, and after a damaged element line
ElementLists ==
    {<<ImageSizeDeclared>>,
     <<VertexOf(1), ImageSizeDeclared>>,
     <<ColoredOf(2), ImageSizeDeclared>>,
     <<VertexOf(MaxVertices), ImageSizeDeclared>>,
     <<VertexOf(1), VertexOf(2), ImageSizeDeclared>>,
     <<ImageSizeDeclared, VertexOf(1), ImageSizeDeclared>>,
     <<Damaged("no_count"), ImageSizeDeclared>>,
     <<VertexOf(1), Damaged("no_count"), ImageSizeDeclared>>,
     <<VertexOf(1), Damaged("bad_count"), ImageSizeDeclared>>}
AllDeclaredOk(elements) == \A k \in DOMAIN elements : elements[k].form = "ok"
DeclaredFiles ==
    [elements : ElementLists, comment : {"none", "ascii", "two_byte", "three_byte"},
     eol : {<<10>>, <<13, 10>>}]
    \cup [elements : {<<ImageSizeDeclared>>}, comment : {"long"}, eol : {<<10>>, <<13, 10>>}]
IsDeclared(file) == "elements" \in DOMAIN file

\* parsePlyMetadata(buffer) on a declared file
DeclaredParse ==
    /\ IsDeclared(plyFile)
    /\ plyResult = <<>>
    /\ PlyStore(parsePlyMetadata(DeclaredBytes(plyFile), defaultIntrinsics,
                                 defaultExtrinsics))
    /\ UNCHANGED plyFile
    /\ UNCHANGED <<playerVars, viewerVars, loadVars, obsVars, quantVars, callVars, uiVars, pageVars, frameVars,
                   camVars>>
\* headerEndIndex of parsePlyHeader on the window of a declared file
HeaderEndOf(file) ==
    parsePlyHeader(TextDecode(SubSeq(DeclaredBytes(file), 1,
                                     Min(Len(DeclaredBytes(file)), HeaderWindow)))).headerEndIndex

\* ======================================================================
\* Depth estimator, offset model (CameraMatrixUtils) and camera set-up
\* ------------------------------------------------- camera arithmetic
\* JavaScript numbers of the camera set-up: a finite value is kept in
\* thousandths (milli = 1000 x value), next to NaN and the two infinities.
\* Finite results are cut to a whole number of thousandths; the special
\* values follow IEEE 754.
Finite(m) == [kind |-> "finite", milli |-> m]
PosInfinity == [kind |-> "+inf", milli |-> 0]
NegInfinity == [kind |-> "-inf", milli |-> 0]
NotANumber == [kind |-> "nan", milli |-> 0]

\* -1, 0 or 1; NaN has no sign
Sign(a) ==
    CASE a.kind = "+inf" -> 1
      [] a.kind = "-inf" -> -1
      [] a.kind = "finite" -> IF a.milli > 0 THEN 1 ELSE IF a.milli < 0 THEN -1 ELSE 0
      [] OTHER -> 0
Signed(s) == IF s > 0 THEN PosInfinity ELSE NegInfinity
Abs(n) == IF n < 0 THEN -n ELSE n
\* p / d cut towards zero, d # 0
Cut(p, d) == (IF (p < 0) = (d < 0) THEN 1 ELSE -1) * (Abs(p) \div Abs(d))

\* Number.isFinite(a)
IsFinite(a) == a.kind = "finite"
\* a > b and a >= b: false when either side is NaN
Greater(a, b) ==
    /\ a.kind # "nan"
    /\ b.kind # "nan"
    /\ CASE a.kind = "+inf" -> b.kind # "+inf"
         [] a.kind = "-inf" -> FALSE
         [] b.kind = "+inf" -> FALSE
         [] b.kind = "-inf" -> TRUE
         [] OTHER -> a.milli > b.milli
AtLeast(a, b) ==
    /\ a.kind # "nan"
    /\ b.kind # "nan"
    /\ (a = b \/ Greater(a, b))
\* Math.max(a, b): NaN when either argument is NaN
MathMax(a, b) ==
    IF a.kind = "nan" \/ b.kind = "nan" THEN NotANumber
    ELSE IF Greater(b, a) THEN b ELSE a
\* a + b
Plus(a, b) ==
    CASE a.kind = "nan" \/ b.kind = "nan" -> NotANumber
      [] a.kind = "finite" /\ b.kind = "finite" -> Finite(a.milli + b.milli)
      [] a.kind = "finite" -> b
      [] b.kind = "finite" -> a
      [] OTHER -> IF a = b THEN a ELSE NotANumber
\* a - b
Minus(a, b) ==
    Plus(a, CASE b.kind = "+inf" -> NegInfinity
              [] b.kind = "-inf" -> PosInfinity
              [] b.kind = "finite" -> Finite(-b.milli)
              [] OTHER -> b)
\* a * b: infinity times zero is NaN
Times(a, b) ==
    CASE a.kind = "nan" \/ b.kind = "nan" -> NotANumber
      [] a.kind = "finite" /\ b.kind = "finite" -> Finite(Cut(a.milli * b.milli, 1000))
      [] Sign(a) * Sign(b) = 0 -> NotANumber
      [] OTHER -> Signed(Sign(a) * Sign(b))
\* a / b: a finite nonzero value over zero is an infinity, zero over zero
\* and infinity over infinity are NaN (the zeros of this model are +0)
Over(a, b) ==
    CASE a.kind = "nan" \/ b.kind = "nan" -> NotANumber
      [] a.kind = "finite" /\ b.kind = "finite" ->
            IF b.milli # 0 THEN Finite(Cut(a.milli * 1000, b.milli))
            ELSE IF a.milli = 0 THEN NotANumber ELSE Signed(Sign(a))
      [] a.kind = "finite" -> Finite(0)
      [] b.kind = "finite" -> Signed(Sign(a) * (IF b.milli < 0 THEN -1 ELSE 1))
      [] OTHER -> NotANumber
\* the largest k in lo..hi with k * k <= n, where lo * lo <= n
RECURSIVE Root(_, _, _)
Root(n, lo, hi) ==
    IF lo >= hi THEN lo
    ELSE LET mid == (lo + hi + 1) \div 2
         IN IF mid * mid <= n THEN Root(n, mid, hi) ELSE Root(n, lo, mid - 1)
\* Math.sqrt(a)
MathSqrt(a) ==
    CASE a.kind = "nan" \/ a.kind = "-inf" -> NotANumber
      [] a.kind = "+inf" -> PosInfinity
      [] a.milli < 0 -> NotANumber
      [] OTHER -> Finite(Root(a.milli * 1000, 0, 46340))

\* ------------------------------------ Depth Estimator (computeDepthQuantiles)
\* Number.isFinite(z) && z > 0
ValidDepth_nonNegative(z) == IsFinite(z) /\ AtLeast(z, Finite(0))
ValidDepth(z) == IsFinite(z) /\ Greater(z, Finite(0))

\* for (let i = 2; i < positions.length; i += 3): the z of every whole point,
\* kept when it is valid
Depths(positions) ==
    SelectSeq([k \in 1..(Len(positions) \div 3) |-> positions[3 * k]], ValidDepth)

\* depths.sort((a, b) => a - b) on finite values
Insert(sorted, z) ==
    LET before == SelectSeq(sorted, LAMBDA d : d.milli <= z.milli)
        after == SelectSeq(sorted, LAMBDA d : d.milli > z.milli)
    IN before \o <<z>> \o after
RECURSIVE SortAscending(_)
SortAscending(depths) ==
    IF depths = <<>> THEN <<>>
    ELSE Insert(SortAscending(SubSeq(depths, 1, Len(depths) - 1)), depths[Len(depths)])

\* Math.floor(a)
MathFloor(a) == IF IsFinite(a) THEN Finite((a.milli \div 1000) * 1000) ELSE a
\* depths[index] ?? depths[fallback]: depths[index] is undefined unless index
\* is one of 0 .. depths.length - 1
ElementOr(depths, index, fallback) ==
    IF IsFinite(index) /\ index.milli >= 0 /\ index.milli < 1000 * Len(depths)
    THEN depths[index.milli \div 1000 + 1]
    ELSE depths[fallback + 1]
Length(depths) == Finite(1000 * Len(depths))
\* lines 83-97 on the sorted depths
QuantilesOf(depths, quantile) ==
    IF Len(depths) = 0
    THEN [min |-> Finite(1000), focus |-> Finite(2000), max |-> Finite(10000)]
    ELSE [min |-> ElementOr(depths, MathFloor(Times(Length(depths), quantile)), 0),
          focus |-> ElementOr(depths, MathFloor(Times(Length(depths), Finite(500))), 0),
          max |-> ElementOr(depths,
                            MathFloor(Times(Length(depths), Minus(Finite(1000), quantile))),
                            Len(depths) - 1)]
\* computeDepthQuantiles(positions, quantile)
computeDepthQuantiles(positions, quantile) ==
    QuantilesOf(SortAscending(Depths(positions)), quantile)
\* quantile = 0.1
DefaultQuantile == Finite(100)

\* ---- inputs of the depth estimator
\* z values a Float32Array can hold: NaN, the infinities, negative, zero and
\* positive numbers
DepthValues ==
    {NotANumber, PosInfinity, NegInfinity, Finite(-1000), Finite(0),
     Finite(50), Finite(1000), Finite(3000)}
\* the z values of up to MaxPoints points
DepthLists == UNION {[1..n -> DepthValues] : n \in 0..MaxPoints}
\* a position array x, y, z, x, y, z, ... with the given z values, followed
\* by `tail` values of an incomplete point
PointArray(zs, tail) ==
    Flatten([k \in 1..Len(zs) |-> <<Finite(5000), Finite(6000), zs[k]>>])
        \o SubSeq(<<Finite(7000), Finite(8000)>>, 1, tail)
\* quantile arguments: the default, the ends and the middle of [0, 1], values
\* above the middle and outside [0, 1], and NaN
QuantileValues ==
    {DefaultQuantile, Finite(0), Finite(500), Finite(900), Finite(1000),
     Finite(-100), Finite(1500), NotANumber}

\* no call has been made
QuantIdle ==
    /\ argPositions = <<>>
    /\ argQuantile = DefaultQuantile
    /\ depthQuantiles = <<>>
\* a caller holds a position array and a quantile argument
QuantArguments ==
    /\ argPositions \in {PointArray(zs, tail) : zs \in DepthLists, tail \in 0..2}
    /\ argQuantile \in QuantileValues
    /\ depthQuantiles = <<>>
\* const depthQuantiles = computeDepthQuantiles(positions, quantile)
QuantApply ==
    /\ depthQuantiles = <<>>
    /\ depthQuantiles' = <<computeDepthQuantiles(argPositions, argQuantile)>>
    /\ UNCHANGED <<argPositions, argQuantile>>
    /\ UNCHANGED <<playerVars, viewerVars, loadVars, obsVars, plyVars, camVars,
                   callVars, uiVars, pageVars, frameVars>>

\* ------------------------------------------- Offset Model (computeMaxOffset)
\* (width / focalLengthPx) ** 2
SquaredRatio(side, focalLengthPx) ==
    Times(Over(side, focalLengthPx), Over(side, focalLengthPx))
\* Math.sqrt((width / focalLengthPx) ** 2 + (height / focalLengthPx) ** 2)
Diagonal(resolutionPx, focalLengthPx) ==
    MathSqrt(Plus(SquaredRatio(resolutionPx[1], focalLengthPx),
                  SquaredRatio(resolutionPx[2], focalLengthPx)))
\* the record returned for maxLateralOffset and maxMedialOffset
MaxOffset(maxLateralOffset, maxMedialOffset) ==
    [x |-> maxLateralOffset, y |-> maxLateralOffset, z |-> maxMedialOffset]
\* computeMaxOffset whose lateral offset leaves maxDisparity out
computeMaxOffset_noDisparity(depth, resolutionPx, focalLengthPx, disparity, zoom) ==
    MaxOffset(Times(Diagonal(resolutionPx, focalLengthPx), depth), Times(zoom, depth))
\* computeMaxOffset(minDepth, resolutionPx, focalLengthPx, params), params
\* given by its fields maxDisparity and maxZoom
computeMaxOffset(depth, resolutionPx, focalLengthPx, disparity, zoom) ==
    MaxOffset(Times(Times(disparity, Diagonal(resolutionPx, focalLengthPx)), depth),
              Times(zoom, depth))

\* estimateFocalLength(imageSize): height * 1.07
estimateFocalLength(imageSize) == Times(imageSize[2], Finite(1070))

\* ------------------------------------------- camera set-up of the viewer
\* this.metadata?.imageSize ?? [640, 480]
ImageSizeOf(meta) ==
    IF meta = <<>> THEN <<Finite(640000), Finite(480000)>> ELSE meta[1].imageSize
\* lines 420-423 of setupCameraForScene, this.focalLength left alone when
\* this.metadata is null: metadata.focalLength > 0 ? metadata.focalLength
\* : estimateFocalLength(metadata.imageSize)
FocalLengthFor(meta, current) ==
    IF meta = <<>> THEN current
    ELSE IF Greater(meta[1].focalLength, Finite(0))
         THEN meta[1].focalLength
         ELSE estimateFocalLength(meta[1].imageSize)

\* the depth path through the point quantiles (older viewer, when positions
\* were extracted): Math.max(0.1, depthQuantiles.min) and
\* Math.max(2.0, depthQuantiles.focus)
DepthsFromQuantiles(q) ==
    [minDepth |-> MathMax(Finite(100), q.min),
     depthFocus |-> MathMax(Finite(2000), q.focus)]
\* the depth path through the bounding box of the first mesh:
\* Math.max(0.1, minZ) and Math.max(2.0, minZ + 0.1 * (maxZ - minZ))
DepthsFromBox_noFloor(box) ==
    [minDepth |-> box.minZ,
     depthFocus |-> Plus(box.minZ, Times(Finite(100), Minus(box.maxZ, box.minZ)))]
DepthsFromBox(box) ==
    [minDepth |-> MathMax(Finite(100), box.minZ),
     depthFocus |-> MathMax(Finite(2000),
                            Plus(box.minZ, Times(Finite(100), Minus(box.maxZ, box.minZ))))]
\* the depth part of setupCameraForScene
SceneDepths(points, box) ==
    IF Len(points) > 0
    THEN DepthsFromQuantiles(computeDepthQuantiles(points, DefaultQuantile))
    ELSE DepthsFromBox(box)

\* ---- inputs of the camera set-up
\* fields of DEFAULT_TRAJECTORY_PARAMS read by computeMaxOffset
DefaultMaxDisparity == Finite(80)
DefaultMaxZoom == Finite(150)
\* what parsePlyMetadata can hand to the viewer: the default record, a record
\* with image size and focal length, records whose focal length stayed at the
\* sentinel 0 (image_size declared alone, also with a height of zero),
\* records whose stored focal lengths are negative or NaN, and a record with
\* focal length and an image size of 0 x 0
Metadata(width, height, focal) ==
    [imageSize |-> <<Finite(1000 * width), Finite(1000 * height)>>, focalLength |-> focal]
MetadataValues ==
    {Metadata(640, 480, Finite(0)), Metadata(600, 320, Finite(500000)),
     Metadata(600, 320, Finite(0)), Metadata(600, 0, Finite(0)),
     Metadata(320, 240, Finite(-500000)), Metadata(320, 240, NotANumber),
     Metadata(0, 0, Finite(500000))}
\* z extent of the bounding box of the first mesh
Box(minZ, maxZ) == [minZ |-> Finite(minZ), maxZ |-> Finite(maxZ)]
BoxValues ==
    {Box(1000, 5000), Box(-2000, 3000), Box(0, 500), Box(25000, 45000), Box(-2000, 45000)}
\* z values of the positions extracted from the file; none in the viewer
\* that does not extract positions
SceneDepthLists == {<<>>, <<Finite(-1000), NotANumber>>, <<Finite(50), Finite(3000)>>}
\* values the maxDisparity and maxZoom inputs can hold: Number.parseFloat of
\* the input text, passed on unless it is NaN
ParamValues == {Finite(80), Finite(0), Finite(-500), NotANumber}
\* the files loaded: every metadata record and every box without positions,
\* and every position list
Scene(meta, zs, box) == [meta |-> meta, zs |-> zs, box |-> box]
Scenes ==
    {Scene(meta, <<>>, Box(1000, 5000)) : meta \in MetadataValues}
    \cup {Scene(Metadata(640, 480, Finite(0)), <<>>, box) : box \in BoxValues}
    \cup {Scene(Metadata(640, 480, Finite(0)), zs, Box(1000, 5000)) : zs \in SceneDepthLists}

\* the viewer after its constructor: no metadata, no positions, and the
\* initial values of depthFocus, minDepth and focalLength
CamIdle ==
    /\ viewerMetadata = <<>>
    /\ viewerPositions = <<>>
    /\ boundingBox = Box(0, 0)
    /\ minDepth = Finite(1000)
    /\ depthFocus = Finite(2000)
    /\ focalLength = Finite(512000)
    /\ maxDisparity = DefaultMaxDisparity
    /\ maxZoom = DefaultMaxZoom
    /\ maxOffset = <<>>

\* computeMaxOffset(this.minDepth, this.metadata?.imageSize ?? [640, 480],
\* this.focalLength, this.trajectoryParams) in generateTrajectory
OffsetNow(depth, meta, focal, disparity, zoom) ==
    <<computeMaxOffset(depth, ImageSizeOf(meta), focal, disparity, zoom)>>

\* the camera fields no step of a load before its end writes
CameraKept ==
    /\ maxOffset' = <<>>
    /\ UNCHANGED <<viewerMetadata, viewerPositions, boundingBox, minDepth, depthFocus,
                   focalLength, maxDisparity, maxZoom>>

\* loadPlySequence(files), up to its first await
CamLoadStart(n) ==
    /\ loadPc = "idle"
    /\ IF n = 0
       THEN UNCHANGED <<splatMeshes, loadVars>>
       ELSE /\ splatMeshes' = <<>>
            /\ loadPc' = "arrayBuffer"
            /\ loadI' = 0
            /\ loadN' = n
    /\ PlayerUntouched
    /\ CameraKept
    /\ UNCHANGED <<trajectoryParams, controlsEnabled, isDisposed, plyVars, quantVars, callVars, uiVars, pageVars, frameVars>>

\* file.arrayBuffer() or splatMesh.initialized rejected
CamLoadError ==
    /\ loadPc \in {"arrayBuffer", "initialized"}
    /\ loadPc' = "idle"
    /\ loadI' = 0
    /\ loadN' = 0
    /\ PlayerUntouched
    /\ CameraKept
    /\ UNCHANGED <<splatMeshes, trajectoryParams, controlsEnabled, isDisposed, plyVars,
                   quantVars, callVars, uiVars, pageVars, frameVars>>

\* file.arrayBuffer() resolved, with the camera data of the file: metadata
\* (and, in the older viewer, positions) of the first file, a mesh added
CamArrayBuffer(meta, zs, box) ==
    /\ loadPc = "arrayBuffer"
    /\ splatMeshes' = Append(splatMeshes, [file |-> loadI])
    /\ loadPc' = "initialized"
    /\ UNCHANGED <<loadI, loadN>>
    /\ IF loadI = 0
       THEN /\ viewerMetadata' = <<meta>>
            /\ viewerPositions' = PointArray(zs, 0)
            /\ boundingBox' = box
       ELSE UNCHANGED <<viewerMetadata, viewerPositions, boundingBox>>
    /\ PlayerUntouched
    /\ maxOffset' = <<>>
    /\ UNCHANGED <<minDepth, depthFocus, focalLength, maxDisparity, maxZoom>>
    /\ UNCHANGED <<trajectoryParams, controlsEnabled, isDisposed, plyVars, quantVars, callVars, uiVars, pageVars, frameVars>>

\* setupCameraForScene followed by generateTrajectory
SetupAndGenerate(depths, focal) ==
    /\ minDepth' = depths.minDepth
    /\ depthFocus' = depths.depthFocus
    /\ focalLength' = focal
    /\ maxOffset' = OffsetNow(depths.minDepth, viewerMetadata, focal, maxDisparity, maxZoom)
    /\ Install("setTrajectory", generateTrajectory(Player, trajectoryParams))
    /\ controlsEnabled' = OnStateChange(emitted', controlsEnabled)

\* splatMesh.initialized resolved: next file, or after the last file
\* setupCameraForScene and generateTrajectory
CamInitialized ==
    /\ loadPc = "initialized"
    /\ IF loadI + 1 < loadN
       THEN /\ loadI' = loadI + 1
            /\ loadPc' = "arrayBuffer"
            /\ UNCHANGED loadN
            /\ PlayerUntouched
            /\ maxOffset' = <<>>
            /\ UNCHANGED <<controlsEnabled, minDepth, depthFocus, focalLength>>
       ELSE /\ loadPc' = "idle"
            /\ loadI' = 0
            /\ loadN' = 0
            /\ IF Len(splatMeshes) > 0
               THEN SetupAndGenerate(SceneDepths(viewerPositions, boundingBox),
                                     FocalLengthFor(viewerMetadata, focalLength))
               ELSE /\ PlayerUntouched
                    /\ maxOffset' = <<>>
                    /\ UNCHANGED <<controlsEnabled, minDepth, depthFocus, focalLength>>
    /\ UNCHANGED <<viewerMetadata, viewerPositions, boundingBox, maxDisparity, maxZoom>>
    /\ UNCHANGED <<splatMeshes, trajectoryParams, isDisposed, plyVars, quantVars, callVars, uiVars, pageVars, frameVars>>

\* the rest of updateTrajectoryParam and resetTrajectoryParams for the
\* offset parameters: if (this.splatMeshes.length > 0) this.generateTrajectory()
RegenerateOffset ==
    IF Len(splatMeshes) > 0
    THEN /\ maxOffset' = OffsetNow(minDepth, viewerMetadata, focalLength,
                                   maxDisparity', maxZoom')
         /\ Install("setTrajectory", generateTrajectory(Player, trajectoryParams'))
         /\ controlsEnabled' = OnStateChange(emitted', controlsEnabled)
    ELSE /\ PlayerUntouched
         /\ maxOffset' = <<>>
         /\ UNCHANGED controlsEnabled

\* the input handlers of maxDisparity and maxZoom: updateTrajectoryParam(key,
\* value) for a value that is not NaN
UpdateOffsetParam(key, value) ==
    /\ value.kind # "nan"
    /\ maxDisparity' = IF key = "maxDisparity" THEN value ELSE maxDisparity
    /\ maxZoom' = IF key = "maxZoom" THEN value ELSE maxZoom
    /\ UNCHANGED trajectoryParams
    /\ RegenerateOffset
    /\ UNCHANGED <<viewerMetadata, viewerPositions, boundingBox, minDepth, depthFocus,
                   focalLength>>
    /\ UNCHANGED <<splatMeshes, isDisposed, loadVars, plyVars, quantVars, callVars, uiVars, pageVars, frameVars>>

\* resetTrajectoryParams() with the offset parameters
ResetOffsetParams ==
    /\ trajectoryParams' = DEFAULT_TRAJECTORY_PARAMS
    /\ maxDisparity' = DefaultMaxDisparity
    /\ maxZoom' = DefaultMaxZoom
    /\ RegenerateOffset
    /\ UNCHANGED <<viewerMetadata, viewerPositions, boundingBox, minDepth, depthFocus,
                   focalLength>>
    /\ UNCHANGED <<splatMeshes, isDisposed, loadVars, plyVars, quantVars, callVars, uiVars, pageVars, frameVars>>

\* ------------------------ overlapping calls of loadPlySequence (GaussianViewer)
\* loadPlySequence holds no lock and no token: the file input and the drop
\* handler of the page stay enabled during a load, so a second call can start
\* while the first waits.  Calls are numbered in the order they start.
CallIds == 1..2
NoCall == [pc |-> "none", i |-> 0, n |-> 0, scene |-> <<>>, before |-> <<>>,
           overlaps |-> FALSE]
CallsIdle == calls = [c \in CallIds |-> NoCall]
InProgress(c) == calls[c].pc \in {"arrayBuffer", "initialized"}
\* the files the calls are given: two scenes that differ in every field
CallScenes ==
    {Scene(Metadata(600, 320, Finite(500000)), <<>>, Box(1000, 5000)),
     Scene(Metadata(640, 480, Finite(0)), <<>>, Box(25000, 45000))}
\* what the viewer holds of a scene, with isLoaded()
SceneHeld ==
    [splatMeshes |-> splatMeshes, metadata |-> viewerMetadata, minDepth |-> minDepth,
     depthFocus |-> depthFocus, focalLength |-> focalLength, trajectory |-> trajectory,
     isLoaded |-> Len(splatMeshes) > 0]

\* loadPlySequence(files) up to its first await: the meshes held are removed
CallStart(c, n, scene) ==
    /\ calls[c].pc = "none"
    /\ \A d \in 1..(c - 1) : calls[d].pc # "none"
    /\ calls' = [calls EXCEPT ![c] = [pc |-> "arrayBuffer", i |-> 0, n |-> n,
                                      scene |-> scene, before |-> <<SceneHeld>>,
                                      overlaps |-> \E d \in CallIds : InProgress(d)]]
    /\ splatMeshes' = <<>>
    /\ PlayerUntouched
    /\ CameraKept
    /\ UNCHANGED <<trajectoryParams, controlsEnabled, isDisposed, loadVars, plyVars,
                   quantVars, uiVars, pageVars, frameVars>>

\* file.arrayBuffer() of call c resolved: this.metadata from its first file,
\* its mesh pushed on the shared list
CallArrayBuffer(c) ==
    /\ calls[c].pc = "arrayBuffer"
    /\ calls' = [calls EXCEPT ![c].pc = "initialized"]
    /\ viewerMetadata' = IF calls[c].i = 0 THEN <<calls[c].scene.meta>> ELSE viewerMetadata
    /\ splatMeshes' = Append(splatMeshes, [file |-> calls[c].i, call |-> c,
                                           box |-> calls[c].scene.box])
    /\ PlayerUntouched
    /\ maxOffset' = <<>>
    /\ UNCHANGED <<viewerPositions, boundingBox, minDepth, depthFocus, focalLength,
                   maxDisparity, maxZoom>>
    /\ UNCHANGED <<trajectoryParams, controlsEnabled, isDisposed, loadVars, plyVars,
                   quantVars, uiVars, pageVars, frameVars>>

\* splatMesh.initialized of call c resolved: next file, or after the last
\* file setupCameraForScene on the bounding box of splatMeshes[0] and
\* generateTrajectory, when the shared list holds a mesh
CallInitialized(c) ==
    /\ calls[c].pc = "initialized"
    /\ IF calls[c].i + 1 < calls[c].n
       THEN /\ calls' = [calls EXCEPT ![c].pc = "arrayBuffer", ![c].i = @ + 1]
            /\ PlayerUntouched
            /\ maxOffset' = <<>>
            /\ UNCHANGED <<controlsEnabled, minDepth, depthFocus, focalLength, boundingBox>>
       ELSE /\ calls' = [calls EXCEPT ![c].pc = "done"]
            /\ IF Len(splatMeshes) > 0
               THEN /\ boundingBox' = splatMeshes[1].box
                    /\ SetupAndGenerate(SceneDepths(viewerPositions, splatMeshes[1].box),
                                        FocalLengthFor(viewerMetadata, focalLength))
               ELSE /\ PlayerUntouched
                    /\ maxOffset' = <<>>
                    /\ UNCHANGED <<controlsEnabled, minDepth, depthFocus, focalLength,
                                   boundingBox>>
    /\ UNCHANGED <<viewerMetadata, viewerPositions, maxDisparity, maxZoom>>
    /\ UNCHANGED <<splatMeshes, trajectoryParams, isDisposed, loadVars, plyVars, quantVars,
                   uiVars, pageVars, frameVars>>

\* file.arrayBuffer() or splatMesh.initialized of call c rejected: the catch
\* block calls onError and rethrows
CallError(c) ==
    /\ InProgress(c)
    /\ calls' = [calls EXCEPT ![c].pc = "failed"]
    /\ PlayerUntouched
    /\ CameraKept
    /\ UNCHANGED <<splatMeshes, trajectoryParams, controlsEnabled, isDisposed, loadVars,
                   plyVars, quantVars, uiVars, pageVars, frameVars>>

\* --------------------------------------- parameter controls of the page (main)
\* what the trajectory select and the numeric inputs show.  An input's text is
\* modelled by the number Number.parseFloat / Number.parseInt reads from it,
\* NotParsed for a text they read as NaN; String(defaults.key) is the text
\* that reads back as defaults.key.  The distance input has no counterpart in
\* the parameters modelled here.
Shown(count) == [parsed |-> TRUE, value |-> count]
NotParsed == [parsed |-> FALSE, value |-> 0]
ControlsOf(params, disparity, zoom) ==
    [type |-> params.type, numSteps |-> Shown(params.numSteps),
     numRepeats |-> Shown(params.numRepeats),
     maxDisparity |-> disparity, maxZoom |-> zoom]
\* the parameters the viewer holds, as the controls would show them
ParamsHeld == ControlsOf(trajectoryParams, maxDisparity, maxZoom)
\* values read from the texts typed into the numSteps and numRepeats inputs
CountValues == {Shown(MaxSteps), NotParsed}
\* values read from the texts typed into the maxDisparity and maxZoom inputs
OffsetValues == {Finite(0), NotANumber}
\* the page as served: every control shows the default
ControlsIdle ==
    controls = ControlsOf(DEFAULT_TRAJECTORY_PARAMS, DefaultMaxDisparity, DefaultMaxZoom)

\* change handler of the trajectory select: viewer.setTrajectoryType(value)
SelectChange(type) ==
    /\ controls' = [controls EXCEPT !.type = type]
    /\ trajectoryParams' = [trajectoryParams EXCEPT !.type = type]
    /\ maxOffset' = OffsetNow(minDepth, viewerMetadata, focalLength, maxDisparity, maxZoom)
    /\ Install("setTrajectory", generateTrajectory(Player, trajectoryParams'))
    /\ controlsEnabled' = OnStateChange(emitted', controlsEnabled)
    /\ UNCHANGED <<viewerMetadata, viewerPositions, boundingBox, minDepth, depthFocus,
                   focalLength, maxDisparity, maxZoom>>
    /\ UNCHANGED <<splatMeshes, isDisposed, loadVars, plyVars, quantVars, callVars, pageVars, frameVars>>

\* input handlers of numSteps and numRepeats: Number.parseInt(value, 10),
\* then updateTrajectoryParam(key, value) if the value is not NaN
CountInput(key, value) ==
    /\ controls' = [controls EXCEPT ![key] = value]
    /\ UNCHANGED <<viewerMetadata, viewerPositions, boundingBox, minDepth, depthFocus,
                   focalLength, maxDisparity, maxZoom>>
    /\ IF ~value.parsed
       THEN /\ UNCHANGED trajectoryParams
            /\ PlayerUntouched
            /\ maxOffset' = <<>>
            /\ UNCHANGED controlsEnabled
       ELSE /\ trajectoryParams' = [trajectoryParams EXCEPT ![key] = value.value]
            /\ RegenerateOffset
    /\ UNCHANGED <<splatMeshes, isDisposed, loadVars, plyVars, quantVars, callVars, pageVars, frameVars>>

\* input handlers of maxDisparity and maxZoom: Number.parseFloat(value), then
\* updateTrajectoryParam(key, value) if the value is not NaN
OffsetInput(key, value) ==
    /\ controls' = [controls EXCEPT ![key] = value]
    /\ UNCHANGED trajectoryParams
    /\ IF value.kind = "nan"
       THEN /\ UNCHANGED <<maxDisparity, maxZoom>>
            /\ PlayerUntouched
            /\ maxOffset' = <<>>
            /\ UNCHANGED controlsEnabled
       ELSE /\ maxDisparity' = IF key = "maxDisparity" THEN value ELSE maxDisparity
            /\ maxZoom' = IF key = "maxZoom" THEN value ELSE maxZoom
            /\ RegenerateOffset
    /\ UNCHANGED <<viewerMetadata, viewerPositions, boundingBox, minDepth, depthFocus,
                   focalLength>>
    /\ UNCHANGED <<splatMeshes, isDisposed, loadVars, plyVars, quantVars, callVars, pageVars, frameVars>>

\* updateParameterInputsFromDefaults(): the five numeric inputs are set to
\* String(defaults.key); the trajectory select is not written
updateParameterInputsFromDefaults(shown) ==
    [shown EXCEPT !.numSteps = Shown(DEFAULT_TRAJECTORY_PARAMS.numSteps),
                  !.numRepeats = Shown(DEFAULT_TRAJECTORY_PARAMS.numRepeats),
                  !.maxDisparity = DefaultMaxDisparity,
                  !.maxZoom = DefaultMaxZoom]

\* click handler of the reset-params button: viewer.resetTrajectoryParams(),
\* then updateParameterInputsFromDefaults()
ResetParamsClick ==
    /\ trajectoryParams' = DEFAULT_TRAJECTORY_PARAMS
    /\ maxDisparity' = DefaultMaxDisparity
    /\ maxZoom' = DefaultMaxZoom
    /\ RegenerateOffset
    /\ controls' = updateParameterInputsFromDefaults(controls)
    /\ UNCHANGED <<viewerMetadata, viewerPositions, boundingBox, minDepth, depthFocus,
                   focalLength>>
    /\ UNCHANGED <<splatMeshes, isDisposed, loadVars, plyVars, quantVars, callVars, pageVars, frameVars>>

\* ======================================================================
\* Frame animation of a loaded sequence (GaussianViewer.animate, loadPlySequence)
\* ======================================================================
\* files of one sequence
MaxFrames == 3

\* a mesh of the sequence: the file it was made from and its visible flag
FrameMesh(i, visible) == [file |-> i, visible |-> visible]
\* mesh.visible = flag for the mesh at index f, if there is one
SetVisible(meshes, f, flag) ==
    [i \in DOMAIN meshes |->
        IF i = f + 1 THEN [meshes[i] EXCEPT !.visible = flag] ELSE meshes[i]]
\* indices of the visible meshes
VisibleFrames(meshes) == {i \in 0..(Len(meshes) - 1) : meshes[i + 1].visible}

FrameKeeps ==
    UNCHANGED <<trajectoryParams, isDisposed, plyVars, quantVars, callVars, uiVars, camVars,
                pageVars>>

\* animate(): with more than one mesh and the frame interval elapsed (due),
\* hides the mesh at currentFrame, advances currentFrame modulo the number of
\* meshes and shows the mesh there; then drives the player
FrameTick(dt, due) ==
    /\ ~isDisposed
    /\ IF Len(splatMeshes) > 1 /\ due
       THEN /\ currentFrame' = (currentFrame + 1) % Len(splatMeshes)
            /\ splatMeshes' = SetVisible(SetVisible(splatMeshes, currentFrame, FALSE),
                                         currentFrame', TRUE)
       ELSE UNCHANGED <<currentFrame, splatMeshes>>
    /\ IF isPlaying(Player)
       THEN /\ Install("update", TP_update([Player EXCEPT !.elapsed = ClockAfter(dt)], loop))
            /\ controlsEnabled' = OnStateChange(emitted', controlsEnabled)
       ELSE /\ elapsed' = ClockAfter(dt)
            /\ UNCHANGED <<trajectory, playerState, frameIndex, loop, scenario>>
            /\ lastOp' = "none"
            /\ emitted' = <<>>
            /\ eyePosition' = <<>>
            /\ UNCHANGED controlsEnabled
    /\ FrameKeeps
    /\ UNCHANGED loadVars

\* loadPlySequence(files) with n files, up to its first await: the existing
\* meshes are removed; currentFrame is left as it is
FrameLoadStart(n) ==
    /\ loadPc = "idle"
    /\ splatMeshes' = <<>>
    /\ loadPc' = "arrayBuffer"
    /\ loadI' = 0
    /\ loadN' = n
    /\ PlayerUntouched
    /\ FrameKeeps
    /\ UNCHANGED <<controlsEnabled, currentFrame>>

\* file.arrayBuffer() resolved: the mesh of file i is made, visible only for
\* i = 0, and pushed; splatMesh.initialized is awaited
FrameArrayBuffer ==
    /\ loadPc = "arrayBuffer"
    /\ splatMeshes' = Append(splatMeshes, FrameMesh(loadI, loadI = 0))
    /\ loadPc' = "initialized"
    /\ PlayerUntouched
    /\ FrameKeeps
    /\ UNCHANGED <<loadI, loadN, controlsEnabled, currentFrame>>

\* splatMesh.initialized resolved: next file, or after the last file
\* currentFrame = 0, generateTrajectory and onLoad
FrameInitialized ==
    /\ loadPc = "initialized"
    /\ IF loadI + 1 < loadN
       THEN /\ loadI' = loadI + 1
            /\ loadPc' = "arrayBuffer"
            /\ UNCHANGED <<loadN, currentFrame>>
            /\ PlayerUntouched
            /\ UNCHANGED controlsEnabled
       ELSE /\ loadPc' = "idle"
            /\ loadI' = 0
            /\ loadN' = 0
            /\ currentFrame' = 0
            /\ Install("setTrajectory", generateTrajectory(Player, trajectoryParams))
            /\ controlsEnabled' = OnStateChange(emitted', controlsEnabled)
    /\ FrameKeeps
    /\ UNCHANGED splatMeshes

\* file.arrayBuffer() or splatMesh.initialized rejected
FrameLoadError ==
    /\ loadPc \in {"arrayBuffer", "initialized"}
    /\ loadPc' = "idle"
    /\ loadI' = 0
    /\ loadN' = 0
    /\ PlayerUntouched
    /\ FrameKeeps
    /\ UNCHANGED <<splatMeshes, controlsEnabled, currentFrame>>

\* ======================================================================
\* The page around the viewer (main): buttons, loading overlay, load attempts
\* ======================================================================
\* progress messages in flight on the WebSocket at one time
MaxMessages == 1

\* enableControls(): the trajectory select, the play, pause and reset buttons
\* and the parameter controls (setParameterControlsDisabled(false))
enableControls ==
    [select |-> FALSE, play |-> FALSE, pause |-> FALSE, reset |-> FALSE, params |-> FALSE]
\* disableControls(): the same controls, disabled
disableControls ==
    [select |-> TRUE, play |-> TRUE, pause |-> TRUE, reset |-> TRUE, params |-> TRUE]

\* updateButtonStates(state) that leaves the parameter controls alone
updateButtonStates_buttonsOnly(b, state) ==
    [b EXCEPT !.play = (state = "playing"),
              !.pause = (state # "playing")]

\* updateButtonStates(state)
updateButtonStates(b, state) ==
    [b EXCEPT !.play = (state = "playing"),
              !.pause = (state # "playing"),
              !.params = (state = "playing")]

\* onTrajectoryStateChange: updateButtonStates for every state-change of the
\* call, in order; each call overwrites the same three flags
ButtonsAfter(b, em) ==
    LET changes == {i \in DOMAIN em : em[i][1] = "state-change"}
    IN  IF changes = {}
        THEN b
        ELSE updateButtonStates(b, em[CHOOSE i \in changes : \A j \in changes : j <= i][2])

\* the functions of the page that start a load: loadFiles with PLY/PNG files,
\* loadFiles with a video, loadSampleImage, loadSampleVideo
AttemptKinds == {"files", "video", "sampleImage", "sampleVideo"}
NoAttempt == [kind |-> "none", pc |-> "idle"]
\* the catch block of the function: loadFiles re-enables the controls
AfterCatch(b, kind) == IF kind \in {"files", "video"} THEN enableControls ELSE b

\* the page as served with its controls in state b: overlay hidden, no attempt
PageServed(b) ==
    /\ buttons = b
    /\ loadingVisible = FALSE
    /\ attempt = NoAttempt
    /\ wsPending = 0
\* The markup is not part of the sources: the controls start either all
\* enabled or all disabled
PageIdle == \E b \in {enableControls, disableControls} : PageServed(b)

PageKeeps ==
    UNCHANGED <<trajectoryParams, isDisposed, plyVars, quantVars, callVars, uiVars, camVars,
                frameVars>>

\* viewer.play() with the page's onTrajectoryStateChange
PagePlay ==
    /\ IF Len(splatMeshes) = 0
       THEN /\ PlayerUntouched
            /\ UNCHANGED controlsEnabled
       ELSE \E restart \in BOOLEAN :
            /\ Install("play", TP_play(Player, restart))
            /\ controlsEnabled' = OnStateChange(emitted', FALSE)
    /\ buttons' = ButtonsAfter(buttons, emitted')

\* viewer.pause() with the page's onTrajectoryStateChange
PagePause ==
    /\ Install("pause", TP_pause(Player))
    /\ controlsEnabled' = TRUE
    /\ buttons' = ButtonsAfter(buttons, emitted')

\* click on the play button
PlayClick ==
    /\ ~buttons.play
    /\ PagePlay
    /\ PageKeeps
    /\ UNCHANGED <<splatMeshes, loadVars, loadingVisible, attempt, wsPending>>

\* click on the pause button
PauseClick ==
    /\ ~buttons.pause
    /\ PagePause
    /\ PageKeeps
    /\ UNCHANGED <<splatMeshes, loadVars, loadingVisible, attempt, wsPending>>

\* keydown handler: nothing unless viewer.isLoaded(); space toggles play and
\* pause, r resets, Escape stops
KeyDown(key) ==
    /\ Len(splatMeshes) > 0
    /\ CASE key = " " -> IF playerState = "playing" THEN PagePause ELSE PagePlay
         [] key = "r" -> /\ Install("reset", TP_reset(Player))
                         /\ controlsEnabled' = OnStateChange(emitted', controlsEnabled)
                         /\ buttons' = ButtonsAfter(buttons, emitted')
         [] key = "Escape" -> /\ Install("stop", TP_stop(Player))
                              /\ controlsEnabled' = TRUE
                              /\ buttons' = ButtonsAfter(buttons, emitted')
    /\ PageKeeps
    /\ UNCHANGED <<splatMeshes, loadVars, loadingVisible, attempt, wsPending>>

\* one animation frame of the viewer with the page's onTrajectoryStateChange
PageTick(dt) ==
    /\ ~isDisposed
    /\ IF isPlaying(Player)
       THEN /\ Install("update", TP_update([Player EXCEPT !.elapsed = ClockAfter(dt)], loop))
            /\ controlsEnabled' = OnStateChange(emitted', controlsEnabled)
       ELSE /\ elapsed' = ClockAfter(dt)
            /\ UNCHANGED <<trajectory, playerState, frameIndex, loop, scenario>>
            /\ lastOp' = "none"
            /\ emitted' = <<>>
            /\ eyePosition' = <<>>
            /\ UNCHANGED controlsEnabled
    /\ buttons' = ButtonsAfter(buttons, emitted')
    /\ PageKeeps
    /\ UNCHANGED <<splatMeshes, loadVars, loadingVisible, attempt, wsPending>>

\* loadFiles (video or PLY/PNG branch), loadSampleImage, loadSampleVideo up to
\* the first await: showLoading, disableControls, then the request is sent
PageLoadStart(kind) ==
    /\ attempt.pc = "idle"
    /\ loadingVisible' = TRUE
    /\ buttons' = disableControls
    /\ attempt' = [kind |-> kind, pc |-> "fetch"]
    /\ PlayerUntouched
    /\ PageKeeps
    /\ UNCHANGED <<splatMeshes, controlsEnabled, loadVars, wsPending>>

\* the server reports progress of a conversion on the socket
ServerProgress ==
    /\ attempt.pc = "fetch"
    /\ attempt.kind \in {"files", "video"}
    /\ wsPending < MaxMessages
    /\ wsPending' = wsPending + 1
    /\ PlayerUntouched
    /\ PageKeeps
    /\ UNCHANGED <<splatMeshes, controlsEnabled, loadVars, buttons, loadingVisible, attempt>>

\* ws.onmessage: showLoading(event.data)
WsMessage ==
    /\ wsPending > 0
    /\ wsPending' = wsPending - 1
    /\ loadingVisible' = TRUE
    /\ PlayerUntouched
    /\ PageKeeps
    /\ UNCHANGED <<splatMeshes, controlsEnabled, loadVars, buttons, attempt>>

\* the request resolved: the function calls the viewer's load with one file,
\* which removes the existing meshes and awaits the file's bytes
PageFetched ==
    /\ attempt.pc = "fetch"
    /\ loadPc = "idle"
    /\ attempt' = [attempt EXCEPT !.pc = "viewer"]
    /\ loadingVisible' = (loadingVisible \/ attempt.kind = "files")
    /\ splatMeshes' = <<>>
    /\ loadPc' = "arrayBuffer"
    /\ loadI' = 0
    /\ loadN' = 1
    /\ PlayerUntouched
    /\ PageKeeps
    /\ UNCHANGED <<controlsEnabled, buttons, wsPending>>

\* the request failed or its answer was rejected: the catch block of the
\* function alerts and hides the overlay
PageFetchFailed ==
    /\ attempt.pc = "fetch"
    /\ attempt' = NoAttempt
    /\ loadingVisible' = FALSE
    /\ buttons' = AfterCatch(buttons, attempt.kind)
    /\ PlayerUntouched
    /\ PageKeeps
    /\ UNCHANGED <<splatMeshes, controlsEnabled, loadVars, wsPending>>

\* the viewer's load: the bytes arrived, the mesh is added
PageArrayBuffer ==
    /\ attempt.pc = "viewer"
    /\ loadPc = "arrayBuffer"
    /\ splatMeshes' = Append(splatMeshes, [file |-> loadI])
    /\ loadPc' = "initialized"
    /\ PlayerUntouched
    /\ PageKeeps
    /\ UNCHANGED <<loadI, loadN, controlsEnabled, pageVars, frameVars>>

\* the viewer's load completed: generateTrajectory, then the onLoad option of
\* the page: hideLoading(); enableControls()
PageLoaded ==
    /\ attempt.pc = "viewer"
    /\ loadPc = "initialized"
    /\ loadPc' = "idle"
    /\ loadI' = 0
    /\ loadN' = 0
    /\ Install("setTrajectory", generateTrajectory(Player, trajectoryParams))
    /\ controlsEnabled' = OnStateChange(emitted', controlsEnabled)
    /\ loadingVisible' = FALSE
    /\ buttons' = enableControls
    /\ attempt' = NoAttempt
    /\ PageKeeps
    /\ UNCHANGED <<splatMeshes, wsPending>>

\* the viewer's load failed: the onError option of the page hides the overlay
\* and alerts, the error is rethrown into the catch block of the function
PageLoadError ==
    /\ attempt.pc = "viewer"
    /\ loadPc \in {"arrayBuffer", "initialized"}
    /\ loadPc' = "idle"
    /\ loadI' = 0
    /\ loadN' = 0
    /\ loadingVisible' = FALSE
    /\ buttons' = AfterCatch(buttons, attempt.kind)
    /\ attempt' = NoAttempt
    /\ PlayerUntouched
    /\ PageKeeps
    /\ UNCHANGED <<splatMeshes, controlsEnabled, wsPending>>

\* ------------------------------------------------------- specification
\* the viewer after its constructor
ViewerInit ==
    /\ trajectory = <<>>
    /\ playerState = "stopped"
    /\ frameIndex = 0
    /\ elapsed = 0
    /\ loop \in BOOLEAN
    /\ splatMeshes = <<>>
    /\ trajectoryParams = DEFAULT_TRAJECTORY_PARAMS
    /\ controlsEnabled = TRUE
    /\ isDisposed = FALSE
    /\ loadPc = "idle"
    /\ loadI = 0
    /\ loadN = 0
    /\ lastOp = "none"
    /\ emitted = <<>>
    /\ eyePosition = <<>>
    /\ scenario = 0
    /\ currentFrame = 0

Init ==
    ViewerInit /\ PlyIdle /\ QuantIdle /\ CamIdle /\ CallsIdle /\ ControlsIdle
    /\ PageServed(enableControls)

Next ==
    \/ ViewerPlay
    \/ ViewerPause
    \/ ViewerReset
    \/ ViewerStop
    \/ \E type \in TrajectoryTypes : SetTrajectoryType(type)
    \/ \E value \in StepValues : UpdateTrajectoryParam("numSteps", value)
    \/ \E value \in RepeatValues : UpdateTrajectoryParam("numRepeats", value)
    \/ ResetTrajectoryParams
    \/ \E dt \in DtValues : Animate(dt)
    \/ Dispose
    \/ \E n \in 0..MaxFiles : LoadStart(n)
    \/ LoadArrayBuffer
    \/ LoadInitialized
    \/ LoadError

Spec == Init /\ [][Next]_vars

\* animate re-registers itself with requestAnimationFrame on every frame
\* until the viewer is disposed, so animation frames keep coming
LiveSpec == Init /\ [][Next]_vars /\ WF_vars(\E dt \in DtValues : Animate(dt))

\* the codec alone, decoding one file after another
PlyNext ==
    \/ \E file \in Files : PlyPick(file)
    \/ PlyParse

PlySpec == Init /\ [][PlyNext]_vars

\* the codec on files written from element declarations
HeaderNext ==
    \/ \E file \in DeclaredFiles : PlyPick(file)
    \/ DeclaredParse

HeaderSpec == Init /\ [][HeaderNext]_vars

\* computeDepthQuantiles alone, one call after another
QuantInit ==
    ViewerInit /\ PlyIdle /\ QuantArguments /\ CamIdle /\ CallsIdle /\ ControlsIdle
    /\ PageServed(enableControls)

QuantSpec == QuantInit /\ [][QuantApply]_vars

\* loads and edits of the offset parameters, with the camera set-up
CamNext ==
    \/ \E n \in 0..MaxFiles : CamLoadStart(n)
    \/ \E scene \in Scenes : CamArrayBuffer(scene.meta, scene.zs, scene.box)
    \/ CamInitialized
    \/ CamLoadError
    \/ \E key \in {"maxDisparity", "maxZoom"}, value \in ParamValues :
          UpdateOffsetParam(key, value)
    \/ ResetOffsetParams

CamSpec == Init /\ [][CamNext]_vars

\* two calls of loadPlySequence, the second free to start before the first
\* has finished
CallNext ==
    \/ \E c \in CallIds, n \in 1..(MaxFiles + 1), scene \in CallScenes : CallStart(c, n, scene)
    \/ \E c \in CallIds : CallArrayBuffer(c)
    \/ \E c \in CallIds : CallInitialized(c)
    \/ \E c \in CallIds : CallError(c)

CallSpec == Init /\ [][CallNext]_vars

\* the parameter controls of the page, with and without a scene loaded
UiNext ==
    \/ \E type \in TrajectoryTypes : SelectChange(type)
    \/ \E key \in {"numSteps", "numRepeats"}, value \in CountValues : CountInput(key, value)
    \/ \E key \in {"maxDisparity", "maxZoom"}, value \in OffsetValues : OffsetInput(key, value)
    \/ ResetParamsClick
    \/ CamLoadStart(1)
    \/ CamArrayBuffer(Metadata(600, 320, Finite(500000)), <<>>, Box(1000, 5000))
    \/ CamInitialized

UiSpec == Init /\ [][UiNext]_vars

\* the page: buttons, keyboard, animation frames, load attempts, the socket
PageNext ==
    \/ PlayClick
    \/ PauseClick
    \/ \E key \in {" ", "r", "Escape"} : KeyDown(key)
    \/ \E dt \in DtValues : PageTick(dt)
    \/ \E kind \in AttemptKinds : PageLoadStart(kind)
    \/ ServerProgress
    \/ WsMessage
    \/ PageFetched
    \/ PageFetchFailed
    \/ PageArrayBuffer
    \/ PageLoaded
    \/ PageLoadError

PageInit ==
    ViewerInit /\ PlyIdle /\ QuantIdle /\ CamIdle /\ CallsIdle /\ ControlsIdle /\ PageIdle
PageSpec == PageInit /\ [][PageNext]_vars

\* a request that was sent is answered or fails, and a load the viewer began
\* completes or fails; the user and the server need not act
AttemptStep ==
    PageFetched \/ PageFetchFailed \/ PageArrayBuffer \/ PageLoaded \/ PageLoadError
LivePageSpec == PageSpec /\ WF_vars(AttemptStep)

\* loads of frame sequences with animation frames between their awaits
FrameNext ==
    \/ \E dt \in DtValues, due \in BOOLEAN : FrameTick(dt, due)
    \/ \E n \in 1..MaxFrames : FrameLoadStart(n)
    \/ FrameArrayBuffer
    \/ FrameInitialized
    \/ FrameLoadError

FrameSpec == Init /\ [][FrameNext]_vars

\* ------------------------------------------------------------- claims

\* C1: from state stopped with a non-empty sequence, the player operations
\* play, pause, play, stop lead through the states playing, paused, playing,
\* stopped, each with exactly one state-change notification, and the frame
\* index is 0 after the final stop.
C1_PlayPausePlayStop ==
    /\ scenario = 1 => /\ playerState = "playing"
                       /\ lastOp = "play" => emitted = <<StateChange("playing")>>
    /\ scenario = 2 => /\ playerState = "paused"
                       /\ lastOp = "pause" => emitted = <<StateChange("paused")>>
    /\ scenario = 3 => /\ playerState = "playing"
                       /\ lastOp = "play" => emitted = <<StateChange("playing")>>
    /\ scenario = 4 => /\ playerState = "stopped"
                       /\ frameIndex = 0
                       /\ lastOp = "stop" => emitted = <<StateChange("stopped")>>

C1_Witness ==
    scenario = 4 /\ lastOp = "stop" /\ Len(trajectory) > 0

\* C2: while playing and before the end of the sequence, an update whose
\* elapsed time since the last step is e advances the frame index by exactly
\* floor(e / frameInterval), whatever the number of calls it took.
C2_FrameRateIndependent ==
    [][\A dt \in DtValues :
          ( /\ Animate(dt)
            /\ playerState = "playing"
            /\ frameIndex + (ClockAfter(dt) \div FrameInterval) < Len(trajectory) )
          => frameIndex' = frameIndex + (ClockAfter(dt) \div FrameInterval)]_vars

C2_Witness ==
    /\ lastOp = "update"
    /\ playerState = "playing"
    /\ frameIndex >= 2
    /\ emitted = <<FrameChange(frameIndex, Len(trajectory))>>

\* C3: whenever the active sequence is non-empty the frame index is in
\* [0, length), after any sequence of operations.
C3_IndexInRange ==
    Len(trajectory) > 0 => frameIndex \in 0..(Len(trajectory) - 1)

\* C4: an empty active sequence implies state stopped.
C4_EmptyForcesStopped ==
    Len(trajectory) = 0 => playerState = "stopped"

\* C5: play() changes nothing and notifies nothing when the sequence is empty
\* or the player is playing; otherwise it moves to playing, keeps the frame
\* index and emits exactly one state-change(playing).
C5_PlayNoOpOrPlaying ==
    [][lastOp' = "play" =>
          IF Len(trajectory) = 0 \/ playerState = "playing"
          THEN /\ UNCHANGED <<trajectory, playerState, frameIndex>>
               /\ emitted' = <<>>
          ELSE /\ playerState' = "playing"
               /\ UNCHANGED <<trajectory, frameIndex>>
               /\ emitted' = <<StateChange("playing")>>]_vars

C5_Witness ==
    /\ lastOp = "play"
    /\ Len(trajectory) = 0
    /\ playerState = "stopped"
    /\ emitted = <<>>
    /\ Len(splatMeshes) > 0

\* C6: setTrajectory while playing keeps the state playing, sets the frame
\* index to 0, makes the whole sequence generated from the current parameters
\* the active one in that single step, and emits one frame-change.
C6_SetTrajectoryWhilePlaying ==
    [][(lastOp' = "setTrajectory" /\ playerState = "playing") =>
          /\ playerState' = "playing"
          /\ frameIndex' = 0
          /\ trajectory' = createEyeTrajectory(trajectoryParams'.type,
                                               trajectoryParams'.numSteps,
                                               trajectoryParams'.numRepeats)
          /\ emitted' = <<FrameChange(0, Len(trajectory'))>>]_vars

C6_Witness ==
    /\ lastOp = "setTrajectory"
    /\ playerState = "playing"
    /\ frameIndex = 0
    /\ Len(trajectory) = MaxSteps
    /\ trajectory[1].type = "swipe"

\* C7: reset() sets the frame index to 0, leaves the state and the sequence as
\* they are in each of the three states, and emits one frame-change and no
\* state-change.
C7_ResetKeepsState ==
    [][lastOp' = "reset" =>
          /\ frameIndex' = 0
          /\ UNCHANGED <<trajectory, playerState>>
          /\ emitted' = <<FrameChange(0, Len(trajectory))>>]_vars

C7_Witness ==
    /\ lastOp = "reset"
    /\ playerState = "paused"
    /\ frameIndex = 0
    /\ Len(trajectory) > 0

\* C8: pause() while playing moves to paused and keeps the frame index and the
\* sequence, and a play() in state paused resumes from that frame index;
\* pause() in any other state changes nothing.
C8_PauseKeepsFrame ==
    [][/\ lastOp' = "pause" =>
            IF playerState = "playing"
            THEN /\ playerState' = "paused"
                 /\ UNCHANGED <<trajectory, frameIndex>>
                 /\ emitted' = <<StateChange("paused")>>
            ELSE /\ UNCHANGED <<trajectory, playerState, frameIndex>>
                 /\ emitted' = <<>>
       /\ (lastOp' = "play" /\ playerState = "paused" /\ Len(trajectory) > 0) =>
            /\ playerState' = "playing"
            /\ UNCHANGED <<trajectory, frameIndex>>]_vars

C8_Witness ==
    /\ lastOp = "play"
    /\ scenario = 0
    /\ playerState = "playing"
    /\ frameIndex > 0
    /\ emitted = <<StateChange("playing")>>

\* C9: while the player plays a non-looping sequence and animation frames
\* keep calling update, with no other player operation called, the player
\* does not stay in playing forever; the update that ends the playback leaves
\* state stopped, emits state-change(stopped) and returns no position.
C9_PlaybackEnds ==
    /\ []<>(playerState # "playing" \/ loop \/ isDisposed \/ lastOp \notin {"update", "none"})
    /\ [][(lastOp' = "update" /\ ~loop /\ playerState' # "playing") =>
             /\ playerState' = "stopped"
             /\ emitted' = <<StateChange("stopped")>>
             /\ eyePosition' = <<>>]_vars

C9_Witness ==
    /\ lastOp = "update"
    /\ ~loop
    /\ playerState = "stopped"
    /\ Len(trajectory) > 0
    /\ emitted = <<StateChange("stopped")>>
    /\ eyePosition = <<>>

\* C10: a file whose header declares a format other than
\* binary_little_endian (a binary_big_endian line, an ascii line, or no format
\* line at all) decodes to the default record, hasMetadata = false and
\* imageSize = (640, 480), and nothing is read from the file through the
\* DataView, whatever elements the header declares and whatever the body holds.
C10_UnsupportedFormatGivesDefault ==
    (plyResult # <<>> /\ plyFile.format \in {"none", "ascii", "binary_big_endian"})
        => /\ plyResult[1].hasMetadata = FALSE
           /\ plyResult[1].imageSize = <<Num(640), Num(480)>>
           /\ plyResult[1] = DEFAULT_METADATA
           /\ plyReads = {}

\* a big-endian file that declares image_size, intrinsic and color_space and
\* carries all their values has been decoded
C10_Witness ==
    /\ plyResult # <<>>
    /\ plyFile.format = "binary_big_endian"
    /\ plyFile.layout = "full"
    /\ plyFile.terminated
    /\ plyFile.body = "full"

\* the layouts that declare at least one of image_size, intrinsic, extrinsic
\* and color_space
MetadataLayouts ==
    {"image_size", "legacy", "full", "color_space", "extrinsic", "posed", "posed_legacy"}
\* a little-endian file with a terminated header, valid counts and a body
\* that holds every declared value
WellFormed(file) ==
    /\ file.format = "binary_little_endian"
    /\ file.terminated
    /\ file.layout # "bad_count"
    /\ file.body \in {"full", "other"}

\* C11: for a well-formed little-endian file the decoded record has
\* hasMetadata = false exactly when the header declares none of image_size,
\* intrinsic, extrinsic and color_space; a header that declares any of them,
\* also extrinsic alone or color_space alone, decodes to hasMetadata = true.
C11_PresentIffDeclared ==
    (plyResult # <<>> /\ WellFormed(plyFile))
        => (plyResult[1].hasMetadata <=> plyFile.layout \in MetadataLayouts)

\* C12: a call of parsePlyMetadata in which a read fails part-way (the body
\* lacks its last byte, so an earlier block has been read when a later one
\* throws) returns the default record, with hasMetadata = false and nothing
\* decoded in it: its scalar fields are the defaults and, when the shared
\* matrices were identity before the call, its intrinsics and extrinsics are
\* identity after it.
C12_FailedReadGivesDefault ==
    [][(/\ PlyParse
        /\ plyFile.body = "cut"
        /\ defaultIntrinsics = Identity3
        /\ defaultExtrinsics = Identity4)
       => (/\ plyResult'[1] = DEFAULT_METADATA
           /\ defaultIntrinsics' = Identity3
           /\ defaultExtrinsics' = Identity4)]_vars

\* C13: a little-endian file that declares image_size or intrinsic, and whose
\* header has no end_header line or gives an element count that is not a
\* number, decodes to the default record with hasMetadata = false.
C13_AnomalyGivesDefault ==
    (/\ plyResult # <<>>
     /\ plyFile.format = "binary_little_endian"
     /\ plyFile.layout \in {"image_size", "bad_count", "legacy", "full"}
     /\ (~plyFile.terminated \/ plyFile.layout = "bad_count"))
        => /\ plyResult[1].hasMetadata = FALSE
           /\ plyResult[1] = DEFAULT_METADATA

\* C14: a well-formed little-endian file that stores image size (w, h), focal
\* lengths (fx, fy) as a 9-float intrinsic matrix placed after a vertex
\* element or as the legacy 4 floats fx, fy, w, h, and (with the matrix) a
\* color space byte c, decodes to hasMetadata = true, imageSize = (w, h),
\* focalLength = (fx + fy) / 2 and colorSpace = linearRGB for c = 0, sRGB
\* otherwise.
C14_MetadataRoundTrip ==
    (plyResult # <<>> /\ WellFormed(plyFile) /\ plyFile.layout \in {"full", "legacy"})
        => /\ plyResult[1].hasMetadata
           /\ plyResult[1].imageSize = <<Num(BodyValues(plyFile.body).w),
                                         Num(BodyValues(plyFile.body).h)>>
           /\ plyResult[1].focalLength =
                  [kind |-> "num",
                   twice |-> BodyValues(plyFile.body).fx + BodyValues(plyFile.body).fy]
           /\ plyFile.layout = "full" =>
                  plyResult[1].colorSpace =
                      IF BodyValues(plyFile.body).c = 0 THEN "linearRGB" ELSE "sRGB"

\* a file with CRLF line ends, the metadata elements after a vertex element,
\* fx # fy and color space byte 0 has been decoded
C14_Witness ==
    /\ plyResult # <<>>
    /\ WellFormed(plyFile)
    /\ plyFile.layout = "full"
    /\ plyFile.body = "other"
    /\ plyFile.eol = <<13, 10>>
    /\ plyResult[1].colorSpace = "linearRGB"


\* C15: the extrinsics decoded from a well-formed little-endian file (the
\* matrix that metadata.extrinsics refers to) keep the stored row/column
\* meaning.  With 16 stored floats the entry at row r,
\* column c is stored float number 4r+c; with the legacy 12 stored floats the
\* entries of rows 0..2 are stored float number 4r+c and the bottom row is
\* (0, 0, 0, 1).  (Stored float number k holds the value k+1; Matrix4.set
\* takes its arguments row by row, so the entry at row r, column c is
\* argument number 4r+c of the call.)
C15_ExtrinsicsKeepRowColumn ==
    (plyResult # <<>> /\ WellFormed(plyFile))
        => /\ plyFile.layout = "posed"
                => \A r \in 0..3, c \in 0..3 :
                      defaultExtrinsics[4 * r + c + 1] = Num(4 * r + c + 1)
           /\ plyFile.layout = "posed_legacy"
                => /\ \A r \in 0..2, c \in 0..3 :
                         defaultExtrinsics[4 * r + c + 1] = Num(4 * r + c + 1)
                   /\ \A c \in 0..3 :
                         defaultExtrinsics[12 + c + 1] = Num(IF c = 3 THEN 1 ELSE 0)

\* C16: the focal length the viewer hands to computeMaxOffset and uses for
\* the field of view (this.focalLength) is strictly positive in every
\* reachable state, whatever image size and focal length the metadata of the
\* loaded file carries.
C16_FocalLengthPositive == Greater(focalLength, Finite(0))

\* C17: a computeDepthQuantiles call on a position array in which no whole
\* point has a finite, strictly positive z (the empty array and arrays whose
\* length is not a multiple of 3 included) returns exactly min 1, focus 2,
\* max 10; and for every array and quantile the three returned values are
\* finite and strictly positive.
C17_FallbackAndFinite ==
    LET positive(z) == z.kind = "finite" /\ z.milli > 0
        result == depthQuantiles[1]
    IN depthQuantiles # <<>>
        => /\ (\A k \in 1..(Len(argPositions) \div 3) : ~positive(argPositions[3 * k]))
                => result = [min |-> Finite(1000), focus |-> Finite(2000),
                             max |-> Finite(10000)]
           /\ positive(result.min) /\ positive(result.focus) /\ positive(result.max)
\* a call on one whole point of depth 0 followed by two values of an
\* incomplete point has returned the fallback
C17_Witness ==
    /\ argPositions = PointArray(<<Finite(0)>>, 2)
    /\ depthQuantiles = <<[min |-> Finite(1000), focus |-> Finite(2000), max |-> Finite(10000)]>>

\* C18: for a position array with at least one finite, strictly positive z
\* and any quantile argument, the returned values satisfy
\* min <= focus <= max and each of them is one of those z values.
C18_OrderedAndFromInput ==
    LET positive(z) == z.kind = "finite" /\ z.milli > 0
        valid == {argPositions[3 * k] : k \in 1..(Len(argPositions) \div 3)}
                    \cap {z \in DepthValues : positive(z)}
        result == depthQuantiles[1]
    IN (depthQuantiles # <<>> /\ valid # {})
        => /\ result.min.milli <= result.focus.milli
           /\ result.focus.milli <= result.max.milli
           /\ {result.min, result.focus, result.max} \subseteq valid

\* C19: in every reachable viewer state, before and after loads through the
\* point quantiles or through the bounding box, minDepth >= 0.1 and
\* depthFocus >= 2.0.
C19_DepthFloors ==
    /\ AtLeast(minDepth, Finite(100))
    /\ AtLeast(depthFocus, Finite(2000))
\* a load through the bounding box whose z extent is -2 .. 3 has set up the
\* camera: both values sit on their floors
C19_Witness ==
    /\ maxOffset # <<>>
    /\ loadPc = "idle"
    /\ viewerPositions = <<>>
    /\ boundingBox = Box(-2000, 3000)
    /\ minDepth = Finite(100)
    /\ depthFocus = Finite(2000)

\* C20: every offset the viewer computes has x >= 0, y >= 0 and z >= 0,
\* whatever values (any number but NaN) the maxDisparity and maxZoom inputs
\* have passed to updateTrajectoryParam.
C20_OffsetNonNegative ==
    maxOffset # <<>>
        => /\ AtLeast(maxOffset[1].x, Finite(0))
           /\ AtLeast(maxOffset[1].y, Finite(0))
           /\ AtLeast(maxOffset[1].z, Finite(0))

\* a parameter edit or reset that computes an offset right after a handler
\* that computed one: minDepth, image size and focal length are the same in
\* both computations
OffsetRecomputed ==
    /\ maxOffset # <<>>
    /\ maxOffset' # <<>>
    /\ UNCHANGED <<minDepth, focalLength, viewerMetadata>>
\* what such a step does to the offset when one parameter grew and the other
\* stayed
OffsetGrows ==
    /\ maxOffset'[1].x = maxOffset'[1].y
    /\ (Greater(maxDisparity', maxDisparity) /\ maxZoom' = maxZoom)
          => /\ Greater(maxOffset'[1].x, maxOffset[1].x)
             /\ Greater(maxOffset'[1].y, maxOffset[1].y)
             /\ maxOffset'[1].z = maxOffset[1].z
    /\ (Greater(maxZoom', maxZoom) /\ maxDisparity' = maxDisparity)
          => /\ Greater(maxOffset'[1].z, maxOffset[1].z)
             /\ maxOffset'[1].x = maxOffset[1].x
             /\ maxOffset'[1].y = maxOffset[1].y

\* C21 as stated: with minDepth, image size and focal length fixed, a larger
\* maxDisparity gives strictly larger x and y (equal to each other) and the
\* same z, and a larger maxZoom gives a strictly larger z and the same x and y.
C21_OffsetMonotone == [][OffsetRecomputed => OffsetGrows]_vars

\* C21, amended: the same, for a focal length that is strictly positive and an
\* image size that is not 0 x 0 (so that the diagonal is a positive number).
C21_OffsetMonotoneProper ==
    [][(/\ OffsetRecomputed
        /\ Greater(focalLength, Finite(0))
        /\ \E side \in 1..2 : Greater(ImageSizeOf(viewerMetadata)[side], Finite(0)))
       => OffsetGrows]_vars
\* an offset has been computed after maxDisparity was edited to 0 and maxZoom
\* to 0.08, for a 600 x 320 image at focal length 500
C21_Witness ==
    /\ maxOffset # <<>>
    /\ maxDisparity = Finite(0)
    /\ maxZoom = Finite(80)
    /\ focalLength = Finite(500000)
    /\ ImageSizeOf(viewerMetadata) = <<Finite(600000), Finite(320000)>>

C23_EmptyForNonPositiveCounts ==
    [][/\ (/\ lastOp' = "setTrajectory"
           /\ (trajectoryParams'.numSteps < 1 \/ trajectoryParams'.numRepeats < 1))
          => trajectory' = <<>>
       /\ \A key \in {"numSteps", "numRepeats"}, value \in StepValues \cup RepeatValues :
             (UpdateTrajectoryParam(key, value) /\ value < 1 /\ Len(splatMeshes) > 0)
                => (lastOp' = "setTrajectory" /\ trajectory' = <<>>)
       /\ (lastOp' = "play" /\ trajectory = <<>>)
          => /\ playerState' = playerState
             /\ trajectory' = <<>>
             /\ emitted' = <<>>]_vars
\* with a scene loaded and numSteps set to -1, play() has been called on the
\* empty sequence and the player is stopped
C23_Witness ==
    /\ lastOp = "play"
    /\ Len(splatMeshes) > 0
    /\ trajectoryParams.numSteps = -1
    /\ trajectory = <<>>
    /\ playerState = "stopped"

\* C24: at every point of a load where a render tick or a UI handler can run,
\* the metadata, the focal length, minDepth and depthFocus belong to one
\* scene: once the viewer holds the metadata of a file, its focal length is
\* the one chosen for that metadata and its depths are those of that file's
\* positions and bounding box.
C24_OneSceneDuringLoad ==
    viewerMetadata # <<>>
        => /\ focalLength = FocalLengthFor(viewerMetadata, focalLength)
           /\ minDepth = SceneDepths(viewerPositions, boundingBox).minDepth
           /\ depthFocus = SceneDepths(viewerPositions, boundingBox).depthFocus

\* C25: when a second load starts while an earlier one is in progress, then
\* once both have completed the mesh list, the metadata and the inputs of the
\* trajectory (focal length, minDepth, depthFocus) all come from the
\* later-started load: no mesh of the stale load remains.
C25_LaterLoadWins ==
    (calls[1].pc = "done" /\ calls[2].pc = "done" /\ calls[2].overlaps)
        => /\ \A k \in DOMAIN splatMeshes : splatMeshes[k].call = 2
           /\ Len(splatMeshes) = calls[2].n
           /\ viewerMetadata = <<calls[2].scene.meta>>
           /\ focalLength = FocalLengthFor(<<calls[2].scene.meta>>, focalLength)
           /\ minDepth = DepthsFromBox(calls[2].scene.box).minDepth
           /\ depthFocus = DepthsFromBox(calls[2].scene.box).depthFocus

\* C26: a load that fails leaves the scene as it was before the load
\* started: meshes, metadata, depth values, focal length, trajectory and
\* isLoaded() are those held when the call began.
C26_FailedLoadKeepsScene ==
    [][\A c \in CallIds :
          (calls[c].pc # "failed" /\ calls'[c].pc = "failed")
              => SceneHeld' = calls[c].before[1]]_vars


\* C27: whenever a scene is loaded (the viewer holds a mesh) and no load is
\* in progress, the player's active sequence is the one generated from the
\* current trajectory parameters.
C27_SequenceFromCurrentParams ==
    (Len(splatMeshes) > 0 /\ loadPc = "idle")
        => trajectory = createEyeTrajectory(trajectoryParams.type, trajectoryParams.numSteps,
                                            trajectoryParams.numRepeats)


\* C28: after the reset-to-defaults action every trajectory parameter the
\* viewer holds, the path type included, equals its default, and every
\* parameter control of the page shows the value the viewer holds.
C28_ResetRestoresAll ==
    [][ResetParamsClick
          => /\ ParamsHeld' = ControlsOf(DEFAULT_TRAJECTORY_PARAMS, DefaultMaxDisparity,
                                         DefaultMaxZoom)
             /\ controls' = ParamsHeld']_vars


\* C29: the body offset at which a declared element is read equals the body
\* start offset the header parse computed plus the sum, over the elements
\* declared before it, of count x record width; also when two elements
\* share a name, when an element line is damaged and after a large vertex
\* element.  (The element read is image_size, two words.)
C29_ElementOffsets ==
    (IsDeclared(plyFile) /\ plyResult # <<>>)
        => plyReads = ImageSizeBytes(plyFile.elements, HeaderEndOf(plyFile))

\* C30: the body start offset computed from the header is the index of the
\* first byte after the line terminator of the end_header line: with LF or
\* CRLF line endings, with multi-byte characters in a comment and with a
\* header longer than the decoded window.  (Observed on well-formed
\* declarations through the bytes read for image_size.)
C30_BodyStartAfterEndHeader ==
    (IsDeclared(plyFile) /\ AllDeclaredOk(plyFile.elements) /\ plyResult # <<>>)
        => plyReads = ImageSizeBytes(plyFile.elements, Len(DeclaredHeader(plyFile)))


\* C31: on the bounding-box path the camera set-up gives near = max(0.1, box
\* min depth) and focus = max(2.0, near + 0.1 x (box max depth - box min
\* depth)): the focus is offset from the clamped near value, for every box.
C31_FocusFromClampedNear ==
    [][(loadPc = "initialized" /\ loadPc' = "idle" /\ lastOp' = "setTrajectory"
        /\ viewerPositions = <<>>)
          => /\ minDepth' = MathMax(Finite(100), boundingBox.minZ)
             /\ depthFocus' = MathMax(Finite(2000),
                                      Plus(minDepth',
                                           Times(Finite(100),
                                                 Minus(boundingBox.maxZ, boundingBox.minZ))))]_vars


\* C32: the result of parsePlyMetadata depends only on the bytes of its
\* buffer; in particular a file that declares no intrinsic and no extrinsic
\* element yields identity intrinsics and extrinsics, whatever files were
\* decoded before.  (The matrices of a returned record are the objects held
\* in defaultIntrinsics and defaultExtrinsics.)
C32_DecodeDependsOnBytesOnly ==
    (plyResult # <<>>
     /\ plyFile.layout \in {"none", "vertex", "image_size", "bad_count", "color_space"})
        => /\ defaultIntrinsics = Identity3
           /\ defaultExtrinsics = Identity4


\* C33: orbit controls are disabled only while the player is playing: in
\* every reachable viewer state controls.enabled = false implies that the
\* player state is playing.
C33_ControlsOffOnlyWhilePlaying ==
    ~controlsEnabled => playerState = "playing"

\* C34: in every reachable state of the page, while the player is playing the
\* play button and the parameter controls are disabled, whatever the order of
\* play, pause and stop, keyboard shortcuts, load starts, load completions and
\* load failures.
C34_ParametersDisabledWhilePlaying ==
    playerState = "playing" => (buttons.play /\ buttons.params)

\* C35: every load attempt started from the page (loadFiles, loadSampleImage,
\* loadSampleVideo) disables the trajectory controls, and once the attempt has
\* ended, by success or by a failure at any step, the controls are enabled
\* again.
C35_AttemptReenablesControls ==
    (attempt.pc # "idle") ~> (attempt.pc = "idle" /\ buttons = enableControls)

\* C36: whenever no load attempt of the page is in progress, the loading
\* overlay is hidden, in whatever order load completions, load errors and
\* progress messages of the socket are delivered.
C36_OverlayHiddenWhenIdle ==
    attempt.pc = "idle" => ~loadingVisible

\* C37: at most one mesh of the loaded frame sequence is visible at any time,
\* and in the state a completed load leaves, the visible mesh is the one at
\* the current frame index; animation frames may run between the awaits of
\* the load.
C37_OneVisibleFrame ==
    /\ Cardinality(VisibleFrames(splatMeshes)) <= 1
    /\ (loadPc = "idle" /\ lastOp = "setTrajectory")
          => VisibleFrames(splatMeshes) = {currentFrame}

\* C38: after dispose() the viewer is inert: no animation frame changes any
\* state and the viewer holds no splat meshes from then on, also when a load
\* was in flight at the moment of dispose() and completes afterwards.
C38_DisposedHoldsNoMeshes ==
    isDisposed => splatMeshes = <<>>

============================================================================
